---- MODULE Spec2Model ----
(***************************************************************************)
(* State-machine model of btrfs-manager.py: the mutation orchestrator      *)
(* (api_mount, api_umount, api_add_device, api_change_raid,                *)
(* api_delete_snapshot, api_create_btrfs, api_create_snapshot) and the     *)
(* size parser (parse_size).                                               *)
(*                                                                         *)
(* Text is a sequence of fragments.  Whatever the code searches, splits or *)
(* slices (UUIDs, mount-table lines, size strings) is spelled one          *)
(* character per fragment; fixed pieces of text that the code only passes  *)
(* along ("/mnt/btrfs_", "-dconvert=") are one fragment.                   *)
(***************************************************************************)
EXTENDS Integers, Sequences, FiniteSets, TLC

VARIABLES known, mtab, dirs, pc, req, loc, resp, log, size_form, size_str, size_pc, size_ret,
          blk_pc, blk_result, blk_ret,
          fs_pc, fs_result, fs_lines, fs_i, filesystems, current_fs, fs_ret,
          raid_pc, raid_result, raid_info, raid_ret,
          snap_pc, configs, snap_i, snapshots, snap_log, snap_ret

osVars == <<known, mtab, dirs>>
reqVars == <<pc, req, loc, resp, log>>
sizeVars == <<size_form, size_str, size_pc, size_ret>>
blkVars == <<blk_pc, blk_result, blk_ret>>
fsVars == <<fs_pc, fs_result, fs_lines, fs_i, filesystems, current_fs, fs_ret>>
raidVars == <<raid_pc, raid_result, raid_info, raid_ret>>
snapVars == <<snap_pc, configs, snap_i, snapshots, snap_log, snap_ret>>
collectorVars == <<blkVars, fsVars, raidVars, snapVars>>
vars == <<osVars, reqVars, sizeVars, collectorVars>>

-----------------------------------------------------------------------------
(* Bounds of the model *)

\* Largest number of entries of the initial live mount table.
MaxMounts == 2

\* Most digits before and after the decimal point of a size string's number.
MaxIntDigits == 1
MaxFracDigits == 2

-----------------------------------------------------------------------------
(* Python values and string operations *)

\* Python's None: what data.get(key) yields for a key the JSON body lacks.
None == <<"<None>">>

Empty == <<>>

IsWs(c) == c \in {" ", "\n", "\t"}

\* Falsy with the test written `x is None`: an empty string passes.
FalsyNoneOnly(x) == x = None

\* `not x` for x a string or None.
Falsy(x) == x = None \/ x = Empty

\* s[:n]
Take(s, n) == SubSeq(s, 1, IF Len(s) < n THEN Len(s) ELSE n)

\* s[n:]  (n counted from 0)
Drop(s, n) == SubSeq(s, n + 1, Len(s))

\* `u in l` for two strings.
Contains(l, u) == \E i \in 0..(Len(l) - Len(u)) : SubSeq(l, i + 1, i + Len(u)) = u

RECURSIVE LStrip(_)
LStrip(s) == IF s # Empty /\ IsWs(Head(s)) THEN LStrip(Tail(s)) ELSE s

RECURSIVE RStrip(_)
RStrip(s) == IF s # Empty /\ IsWs(s[Len(s)]) THEN RStrip(SubSeq(s, 1, Len(s) - 1)) ELSE s

\* s.strip()
Strip(s) == RStrip(LStrip(s))

\* Index of the first newline of s at or after i, Len(s)+1 if none.
RECURSIVE FirstNL(_, _)
FirstNL(s, i) ==
    IF i > Len(s) THEN i
    ELSE IF s[i] = "\n" THEN i
    ELSE FirstNL(s, i + 1)

\* Index of the first whitespace of s at or after i, Len(s)+1 if none.
RECURSIVE FirstWs(_, _)
FirstWs(s, i) ==
    IF i > Len(s) THEN i
    ELSE IF IsWs(s[i]) THEN i
    ELSE FirstWs(s, i + 1)

\* s.split('\n'): always at least one piece, the empty string splits into [''].
RECURSIVE SplitLines(_)
SplitLines(s) ==
    LET i == FirstNL(s, 1) IN
    IF i > Len(s) THEN <<s>>
    ELSE <<SubSeq(s, 1, i - 1)>> \o SplitLines(Drop(s, i))

\* s.split(): the whitespace-separated tokens, none for a blank string.
RECURSIVE SplitWs(_)
SplitWs(s) ==
    LET t == LStrip(s) IN
    IF t = Empty THEN <<>>
    ELSE LET i == FirstWs(t, 1) IN
         <<SubSeq(t, 1, i - 1)>> \o SplitWs(Drop(t, i - 1))

\* True when an argument vector holds None: subprocess.run raises TypeError.
HasNone(argv) == \E i \in 1..Len(argv) : argv[i] = None

-----------------------------------------------------------------------------
(* The host: filesystems blkid knows, the live btrfs mount table *)

\* Filesystem UUIDs of the host.  UuidA1 and UuidA2 agree on their first
\* eight characters, UuidB1 differs from both within them.
UuidA1 == <<"a", "a", "a", "a", "a", "a", "a", "a", "1">>
UuidA2 == <<"a", "a", "a", "a", "a", "a", "a", "a", "2">>
UuidB1 == <<"b", "b", "b", "b", "b", "b", "b", "b", "1">>
Uuids == {UuidA1, UuidA2, UuidB1}

\* The block device that carries the filesystem with the given UUID.
DevOf(u) ==
    IF u = UuidA1 THEN <<"/dev/sd", "a">>
    ELSE IF u = UuidA2 THEN <<"/dev/sd", "b">>
    ELSE <<"/dev/sd", "c">>

\* Entries the mount table may hold before any request: two mounts whose
\* source column spells UuidA1, one whose source is a longer token that has
\* UuidB1 inside it, and one whose source is a plain device path.
MountPool ==
    { [target |-> <<"/", "x">>, source |-> <<"UUID=">> \o UuidA1],
      [target |-> <<"/", "w">>, source |-> <<"UUID=">> \o UuidA1 \o <<"[/sub]">>],
      [target |-> <<"/", "y">>, source |-> UuidB1 \o <<"9">>],
      [target |-> <<"/", "z">>, source |-> DevOf(UuidA2)] }

RECURSIVE NoRepeatSeqs(_, _)
NoRepeatSeqs(S, n) ==
    IF n = 0 THEN {<<>>}
    ELSE LET shorter == NoRepeatSeqs(S, n - 1) IN
         shorter \cup { Append(q, e) : q \in { r \in shorter : Len(r) = n - 1 },
                                       e \in S }

InitialTables ==
    { t \in NoRepeatSeqs(MountPool, MaxMounts) :
        \A i, j \in 1..Len(t) : i # j => t[i] # t[j] }

\* stdout of `blkid -U <uuid>`: the device path and a newline, nothing when no
\* filesystem has that UUID.
BlkidStdout(uuid) == IF uuid \in known THEN DevOf(uuid) \o <<"\n">> ELSE Empty

\* stdout of `findmnt -t btrfs -n -o TARGET,SOURCE`: one "TARGET SOURCE" line
\* per entry of the live mount table.
RECURSIVE FindmntStdout(_)
FindmntStdout(t) ==
    IF t = <<>> THEN Empty
    ELSE Head(t).target \o <<" ">> \o Head(t).source \o <<"\n">> \o FindmntStdout(Tail(t))

\* The mount table after `umount <path>` succeeded: the last mount on that
\* path is gone.
RECURSIVE UnmountLast(_, _)
UnmountLast(t, path) ==
    IF t = <<>> THEN t
    ELSE IF t[Len(t)].target = path THEN SubSeq(t, 1, Len(t) - 1)
    ELSE Append(UnmountLast(SubSeq(t, 1, Len(t) - 1), path), t[Len(t)])

IsMounted(t, path) == \E i \in 1..Len(t) : t[i].target = path

\* Diagnostic text a failing tool may write to stderr.
Stderrs == {<<"E1">>, <<"E2">>}

\* What subprocess.run(argv, capture_output=True, text=True) can do: raise
\* (TypeError for a None argument, OSError when the tool cannot be started),
\* or return with exit status zero, or non-zero with text on stderr.
RunResults(argv) ==
    IF HasNone(argv) THEN {[rc |-> "raise", stderr |-> Empty]}
    ELSE {[rc |-> "raise", stderr |-> Empty], [rc |-> "ok", stderr |-> Empty]}
         \cup {[rc |-> "fail", stderr |-> e] : e \in Stderrs}

\* The same for a tool whose exit status the caller never reads (blkid,
\* findmnt): it raises or it returns.
LookupResults(argv) ==
    IF HasNone(argv) THEN {[rc |-> "raise", stderr |-> Empty]}
    ELSE {[rc |-> "raise", stderr |-> Empty], [rc |-> "returned", stderr |-> Empty]}

-----------------------------------------------------------------------------
(* Requests and responses *)

\* The requests in flight: the server handles each in a thread of its own.
Slots == {"r1", "r2"}

\* valid_profiles with its last entry mistyped.
valid_profiles_typo ==
    << <<"single">>, <<"raid0">>, <<"raid1">>, <<"raid5">>, <<"raid6">>, <<"raid9">> >>

\* valid_profiles of api_change_raid.
valid_profiles ==
    << <<"single">>, <<"raid0">>, <<"raid1">>, <<"raid5">>, <<"raid6">>, <<"raid10">> >>

\* `x in l` for a list l.
InList(x, l) == \E i \in 1..Len(l) : l[i] = x

\* A JSON body, a key it lacks reading None.
Blank ==
    [kind |-> "none", uuid |-> None, device |-> None, fs_uuid |-> None,
     filesystem |-> None, profile |-> None, config |-> None, id |-> None,
     label |-> None, description |-> None]

ReqUuids == Uuids \cup {None, Empty}
ReqProfiles ==
    {None, <<"single">>, <<"raid0">>, <<"raid1">>, <<"raid5">>, <<"raid6">>, <<"raid10">>,
     <<"raid9">>}
ReqDevices == {None, <<"/dev/sd", "d">>}
ReqPaths == {None, <<"/", "x">>}
ReqConfigs == {None, <<"root">>}
ReqIds == {None, <<"7">>}
ReqLabels == {None, <<"L">>}
ReqDescriptions == {None, <<"d">>}

MountRequests == {[Blank EXCEPT !.kind = "mount", !.uuid = u] : u \in ReqUuids}
UmountRequests == {[Blank EXCEPT !.kind = "umount", !.uuid = u] : u \in ReqUuids}
AddDeviceRequests ==
    {[Blank EXCEPT !.kind = "add-device", !.device = d, !.fs_uuid = u] :
        d \in ReqDevices, u \in ReqUuids}
ChangeRaidRequests ==
    {[Blank EXCEPT !.kind = "change-raid", !.filesystem = f, !.profile = p] :
        f \in ReqPaths, p \in ReqProfiles}
DeleteSnapshotRequests ==
    {[Blank EXCEPT !.kind = "delete-snapshot", !.config = c, !.id = i] :
        c \in ReqConfigs, i \in ReqIds}
CreateBtrfsRequests ==
    {[Blank EXCEPT !.kind = "create-btrfs", !.device = d, !.label = l] :
        d \in ReqDevices, l \in ReqLabels}
CreateSnapshotRequests ==
    {[Blank EXCEPT !.kind = "create-snapshot", !.config = c, !.description = d] :
        c \in ReqConfigs, d \in ReqDescriptions}

Requests ==
    MountRequests \cup UmountRequests \cup AddDeviceRequests \cup ChangeRaidRequests
    \cup DeleteSnapshotRequests \cup CreateBtrfsRequests \cup CreateSnapshotRequests

\* The first step of each handler.
EntryPc(kind) ==
    CASE kind = "mount" -> "mount_blkid"
      [] kind = "umount" -> "umount_findmnt"
      [] kind = "add-device" -> "add_blkid"
      [] kind = "change-raid" -> "raid_validate"
      [] kind = "delete-snapshot" -> "delete_snapshot"
      [] kind = "create-btrfs" -> "create_btrfs"
      [] kind = "create-snapshot" -> "create_snapshot"

\* jsonify({key: fmt.format(args)}), status
Resp(status, key, fmt, args) == [status |-> status, key |-> key, fmt |-> fmt, args |-> args]

NoResp == Resp(0, "", "", <<>>)

\* except Exception as e: return jsonify({'error': str(e)}), 500
ExcResp == Resp(500, "error", "{str(e)}", <<>>)

\* The handler's local variables; table is the mount table as findmnt read it.
NoLoc == [device_path |-> None, mount_point |-> None, stderr |-> None, table |-> <<>>]

\* One invocation of an external tool, as the request's trace records it.
Call(tool, argv, res) == [tool |-> tool, argv |-> argv, rc |-> res.rc, stderr |-> res.stderr]

Finish(s, r) ==
    /\ pc' = [pc EXCEPT ![s] = "done"]
    /\ resp' = [resp EXCEPT ![s] = r]

Goto(s, label) ==
    /\ pc' = [pc EXCEPT ![s] = label]
    /\ UNCHANGED resp

Logged(s, call) == log' = [log EXCEPT ![s] = Append(@, call)]

-----------------------------------------------------------------------------
(* Resolution of a UUID to a mount point *)

RECURSIVE FirstLineWith(_, _, _)
FirstLineWith(lines, uuid, i) ==
    IF i > Len(lines) THEN 0
    ELSE IF Contains(lines[i], uuid) THEN i
    ELSE FirstLineWith(lines, uuid, i + 1)

RECURSIVE LastLineWith(_, _, _)
LastLineWith(lines, uuid, i) ==
    IF i = 0 THEN 0
    ELSE IF Contains(lines[i], uuid) THEN i
    ELSE LastLineWith(lines, uuid, i - 1)

\* ResolveMountPoint with the loop's `break` left out: the last matching line wins.
ResolveMountPointNoBreak(uuid, stdout) ==
    LET lines == SplitLines(Strip(stdout)) IN
    IF uuid = None THEN [exc |-> TRUE, mount_point |-> None]
    ELSE LET i == LastLineWith(lines, uuid, Len(lines)) IN
         IF i = 0 THEN [exc |-> FALSE, mount_point |-> None]
         ELSE IF \E j \in 1..i : Contains(lines[j], uuid) /\ SplitWs(lines[j]) = <<>>
         THEN [exc |-> TRUE, mount_point |-> None]
         ELSE [exc |-> FALSE, mount_point |-> SplitWs(lines[i])[1]]

\* The loop of api_umount and api_add_device over the findmnt output:
\*     mount_point = None
\*     for line in result.stdout.strip().split('\n'):
\*         if uuid in line: mount_point = line.split()[0]; break
\* exc: the loop raised (TypeError for `None in line`, IndexError for a
\* matching line without a token).
ResolveMountPoint(uuid, stdout) ==
    LET lines == SplitLines(Strip(stdout)) IN
    IF uuid = None THEN [exc |-> TRUE, mount_point |-> None]
    ELSE LET i == FirstLineWith(lines, uuid, 1) IN
         IF i = 0 THEN [exc |-> FALSE, mount_point |-> None]
         ELSE IF SplitWs(lines[i]) = <<>> THEN [exc |-> TRUE, mount_point |-> None]
         ELSE [exc |-> FALSE, mount_point |-> SplitWs(lines[i])[1]]

-----------------------------------------------------------------------------
(* The handlers, one action per step *)

\* The server accepts a request: request.json is read, the handler starts.
Receive(s) ==
    /\ pc[s] = "idle"
    /\ \E r \in Requests :
        /\ req' = [req EXCEPT ![s] = r]
        /\ pc' = [pc EXCEPT ![s] = EntryPc(r.kind)]
    /\ UNCHANGED <<osVars, loc, resp, log, sizeVars, collectorVars>>

\* Number of leading UUID characters that name the mount directory.
PrefixLen == 8

\* f'/mnt/btrfs_{uuid[:8]}'
MountPointOf(uuid) == <<"/mnt/btrfs_">> \o Take(uuid, PrefixLen)

\* api_mount: subprocess.run(['blkid', '-U', uuid]) and the not-found check.
MountBlkid(s) ==
    /\ pc[s] = "mount_blkid"
    /\ LET uuid == req[s].uuid IN
       \E res \in LookupResults(<<uuid>>) :
        /\ Logged(s, Call("blkid", <<uuid>>, res))
        /\ IF res.rc = "raise"
           THEN Finish(s, ExcResp) /\ UNCHANGED loc
           ELSE LET device_path == Strip(BlkidStdout(uuid)) IN
                IF Falsy(device_path)
                THEN /\ Finish(s, Resp(404, "error", "Device with UUID {} not found", <<uuid>>))
                     /\ UNCHANGED loc
                ELSE /\ loc' = [loc EXCEPT ![s].device_path = device_path]
                     /\ Goto(s, "mount_mkdir")
    /\ UNCHANGED <<osVars, req, sizeVars, collectorVars>>

\* api_mount: os.makedirs(mount_point, exist_ok=True); it may raise OSError.
MountMkdir(s) ==
    /\ pc[s] = "mount_mkdir"
    /\ LET mount_point == MountPointOf(req[s].uuid) IN
       \/ /\ dirs' = dirs \cup {mount_point}
          /\ loc' = [loc EXCEPT ![s].mount_point = mount_point]
          /\ Goto(s, "mount_run")
       \/ /\ Finish(s, ExcResp)
          /\ UNCHANGED <<dirs, loc>>
    /\ UNCHANGED <<known, mtab, req, log, sizeVars, collectorVars>>

\* The reply of api_mount to the mount command's result.
MountReply(res, device_path, mount_point) ==
    CASE res.rc = "ok" ->
           Resp(200, "message", "Successfully mounted {} to {}", <<device_path, mount_point>>)
      [] res.rc = "fail" -> Resp(500, "error", "Mount failed: {}", <<res.stderr>>)
      [] res.rc = "raise" -> ExcResp

\* MountRun that removes the mount directory again when mount did not succeed.
MountRunCleanup(s) ==
    /\ pc[s] = "mount_run"
    /\ LET device_path == loc[s].device_path
           mount_point == loc[s].mount_point
       IN
       \E res \in RunResults(<<device_path, mount_point>>) :
        /\ Logged(s, Call("mount", <<device_path, mount_point>>, res))
        /\ mtab' = IF res.rc = "ok"
                   THEN Append(mtab, [target |-> mount_point, source |-> device_path])
                   ELSE mtab
        /\ dirs' = IF res.rc = "ok" THEN dirs ELSE dirs \ {mount_point}
        /\ Finish(s, MountReply(res, device_path, mount_point))
    /\ UNCHANGED <<known, req, loc, sizeVars, collectorVars>>

\* api_mount: subprocess.run(['mount', device_path, mount_point]) and the reply.
MountRun(s) ==
    /\ pc[s] = "mount_run"
    /\ LET device_path == loc[s].device_path
           mount_point == loc[s].mount_point
       IN
       \E res \in RunResults(<<device_path, mount_point>>) :
        /\ Logged(s, Call("mount", <<device_path, mount_point>>, res))
        /\ mtab' = IF res.rc = "ok"
                   THEN Append(mtab, [target |-> mount_point, source |-> device_path])
                   ELSE mtab
        /\ Finish(s, MountReply(res, device_path, mount_point))
    /\ UNCHANGED <<known, dirs, req, loc, sizeVars, collectorVars>>

\* api_umount: subprocess.run(['findmnt', ...]), the loop over its lines and
\* the not-found check.  findmnt's exit status is not looked at.
UmountFindmnt(s) ==
    /\ pc[s] = "umount_findmnt"
    /\ LET uuid == req[s].uuid IN
       \E res \in LookupResults(<<>>) :
        /\ Logged(s, Call("findmnt", <<>>, res))
        /\ IF res.rc = "raise"
           THEN Finish(s, ExcResp) /\ UNCHANGED loc
           ELSE LET found == ResolveMountPoint(uuid, FindmntStdout(mtab)) IN
                IF found.exc
                THEN /\ Finish(s, ExcResp)
                     /\ loc' = [loc EXCEPT ![s].table = mtab]
                ELSE IF Falsy(found.mount_point)
                THEN /\ Finish(s, Resp(404, "error",
                                       "No mounted filesystem found with UUID {}", <<uuid>>))
                     /\ loc' = [loc EXCEPT ![s].table = mtab]
                ELSE /\ loc' = [loc EXCEPT ![s].mount_point = found.mount_point,
                                           ![s].table = mtab]
                     /\ Goto(s, "umount_run")
    /\ UNCHANGED <<osVars, req, sizeVars, collectorVars>>

\* The reply of api_umount to the umount command's result.
UmountReply(res, mount_point) ==
    CASE res.rc = "ok" -> Resp(200, "message", "Successfully unmounted {}", <<mount_point>>)
      [] res.rc = "fail" -> Resp(500, "error", "Unmount failed: {}", <<res.stderr>>)
      [] res.rc = "raise" -> ExcResp

\* api_umount: subprocess.run(['umount', mount_point]) and the reply.
UmountRun(s) ==
    /\ pc[s] = "umount_run"
    /\ LET mount_point == loc[s].mount_point IN
       \E res \in RunResults(<<mount_point>>) :
        /\ res.rc = "ok" => IsMounted(mtab, mount_point)
        /\ Logged(s, Call("umount", <<mount_point>>, res))
        /\ mtab' = IF res.rc = "ok" THEN UnmountLast(mtab, mount_point) ELSE mtab
        /\ Finish(s, UmountReply(res, mount_point))
    /\ UNCHANGED <<known, dirs, req, loc, sizeVars, collectorVars>>

\* api_add_device: subprocess.run(['blkid', '-U', fs_uuid]) and the not-found check.
AddBlkid(s) ==
    /\ pc[s] = "add_blkid"
    /\ LET fs_uuid == req[s].fs_uuid IN
       \E res \in LookupResults(<<fs_uuid>>) :
        /\ Logged(s, Call("blkid", <<fs_uuid>>, res))
        /\ IF res.rc = "raise"
           THEN Finish(s, ExcResp) /\ UNCHANGED loc
           ELSE LET fs_device == Strip(BlkidStdout(fs_uuid)) IN
                IF Falsy(fs_device)
                THEN /\ Finish(s, Resp(404, "error",
                                       "Filesystem with UUID {} not found", <<fs_uuid>>))
                     /\ UNCHANGED loc
                ELSE /\ loc' = [loc EXCEPT ![s].device_path = fs_device]
                     /\ Goto(s, "add_findmnt")
    /\ UNCHANGED <<osVars, req, sizeVars, collectorVars>>

\* api_add_device: subprocess.run(['findmnt', ...]), the loop over its lines
\* and the not-mounted check.
AddFindmnt(s) ==
    /\ pc[s] = "add_findmnt"
    /\ LET fs_uuid == req[s].fs_uuid IN
       \E res \in LookupResults(<<>>) :
        /\ Logged(s, Call("findmnt", <<>>, res))
        /\ IF res.rc = "raise"
           THEN Finish(s, ExcResp) /\ UNCHANGED loc
           ELSE LET found == ResolveMountPoint(fs_uuid, FindmntStdout(mtab)) IN
                IF found.exc
                THEN /\ Finish(s, ExcResp)
                     /\ loc' = [loc EXCEPT ![s].table = mtab]
                ELSE IF Falsy(found.mount_point)
                THEN /\ Finish(s, Resp(400, "error",
                                       "Filesystem with UUID {} is not mounted", <<fs_uuid>>))
                     /\ loc' = [loc EXCEPT ![s].table = mtab]
                ELSE /\ loc' = [loc EXCEPT ![s].mount_point = found.mount_point,
                                           ![s].table = mtab]
                     /\ Goto(s, "add_run")
    /\ UNCHANGED <<osVars, req, sizeVars, collectorVars>>

\* The reply of api_add_device to the add command's result.
AddReply(result, device) ==
    CASE result.rc = "ok" ->
           Resp(200, "message", "Successfully added {} to Btrfs filesystem", <<device>>)
      [] result.rc = "fail" -> Resp(500, "error", "Adding device failed: {}", <<result.stderr>>)
      [] result.rc = "raise" -> ExcResp

\* api_add_device: subprocess.run(['btrfs', 'device', 'add', device, fs_mount_point]).
AddRun(s) ==
    /\ pc[s] = "add_run"
    /\ LET device == req[s].device
           fs_mount_point == loc[s].mount_point
       IN
       \E res \in RunResults(<<device, fs_mount_point>>) :
        /\ Logged(s, Call("btrfs device add", <<device, fs_mount_point>>, res))
        /\ Finish(s, AddReply(res, device))
    /\ UNCHANGED <<osVars, req, loc, sizeVars, collectorVars>>

\* api_change_raid: the check of the profile against valid_profiles.
RaidValidate(s) ==
    /\ pc[s] = "raid_validate"
    /\ LET profile == req[s].profile IN
       IF ~InList(profile, valid_profiles)
       THEN Finish(s, Resp(400, "error", "Invalid RAID profile: {}", <<profile>>))
       ELSE Goto(s, "raid_resize")
    /\ UNCHANGED <<osVars, req, loc, log, sizeVars, collectorVars>>

\* RaidBalanceReply that reports the resize form's failure whatever the
\* balance form did.
RaidBalanceReplyNoFallback(result, result_alt, profile) ==
    IF result_alt.rc = "raise" THEN ExcResp
    ELSE Resp(500, "error", "RAID change failed: {}\nAlternative: {}",
              <<result.stderr, result_alt.stderr>>)

\* The reply of api_change_raid once the balance form has run: result is the
\* resize form's result (non-zero exit), result_alt the balance form's.
RaidBalanceReply(result, result_alt, profile) ==
    CASE result_alt.rc = "ok" ->
           Resp(200, "message", "Successfully started RAID conversion to {}", <<profile>>)
      [] result_alt.rc = "fail" ->
           Resp(500, "error", "RAID change failed: {}\nAlternative: {}",
                <<result.stderr, result_alt.stderr>>)
      [] result_alt.rc = "raise" -> ExcResp

\* The reply of api_change_raid when the resize form exited zero.
RaidResizeReply(profile) ==
    Resp(200, "message", "Successfully changed RAID profile to {}", <<profile>>)

\* RaidResize that runs the resize form again when it exited non-zero.
RaidResizeRetry(s) ==
    /\ pc[s] = "raid_resize"
    /\ LET profile == req[s].profile
           filesystem == req[s].filesystem
           argv == <<profile \o <<":">>, filesystem>>
       IN
       \E result \in RunResults(argv) :
        /\ Logged(s, Call("btrfs filesystem resize", argv, result))
        /\ CASE result.rc = "ok" -> Finish(s, RaidResizeReply(profile)) /\ UNCHANGED loc
             [] result.rc = "fail" -> UNCHANGED <<pc, resp, loc>>
             [] result.rc = "raise" -> Finish(s, ExcResp) /\ UNCHANGED loc
    /\ UNCHANGED <<osVars, req, sizeVars, collectorVars>>

\* api_change_raid: subprocess.run(['btrfs', 'filesystem', 'resize', f'{profile}:', filesystem]).
RaidResize(s) ==
    /\ pc[s] = "raid_resize"
    /\ LET profile == req[s].profile
           filesystem == req[s].filesystem
           argv == <<profile \o <<":">>, filesystem>>
       IN
       \E result \in RunResults(argv) :
        /\ Logged(s, Call("btrfs filesystem resize", argv, result))
        /\ CASE result.rc = "ok" ->
                  /\ Finish(s, RaidResizeReply(profile))
                  /\ UNCHANGED loc
             [] result.rc = "fail" ->
                  /\ loc' = [loc EXCEPT ![s].stderr = result.stderr]
                  /\ Goto(s, "raid_balance")
             [] result.rc = "raise" ->
                  /\ Finish(s, ExcResp)
                  /\ UNCHANGED loc
    /\ UNCHANGED <<osVars, req, sizeVars, collectorVars>>

\* api_change_raid: subprocess.run(['btrfs', 'balance', 'start', '-dconvert=' + profile,
\* '-mconvert=' + profile, filesystem]) after the resize form exited non-zero.
RaidBalance(s) ==
    /\ pc[s] = "raid_balance"
    /\ LET profile == req[s].profile
           filesystem == req[s].filesystem
           argv == <<<<"-dconvert=">> \o profile, <<"-mconvert=">> \o profile, filesystem>>
       IN
       \E result_alt \in RunResults(argv) :
        /\ Logged(s, Call("btrfs balance start", argv, result_alt))
        /\ Finish(s, RaidBalanceReply([rc |-> "fail", stderr |-> loc[s].stderr],
                                      result_alt, profile))
    /\ UNCHANGED <<osVars, req, loc, sizeVars, collectorVars>>

\* str(snap_id)
Str(x) == IF x = None THEN <<"None">> ELSE x

\* The reply of api_delete_snapshot to the delete command's result.
DeleteSnapshotReply(result, config, snap_id) ==
    CASE result.rc = "ok" ->
           Resp(200, "message", "Successfully deleted snapshot {} from config {}",
                <<Str(snap_id), Str(config)>>)
      [] result.rc = "fail" -> Resp(500, "error", "Deletion failed: {}", <<result.stderr>>)
      [] result.rc = "raise" -> ExcResp

\* api_delete_snapshot: subprocess.run(['snapper', '-c', config, 'delete', str(snap_id)]).
DeleteSnapshot(s) ==
    /\ pc[s] = "delete_snapshot"
    /\ LET config == req[s].config
           snap_id == req[s].id
           argv == <<config, Str(snap_id)>>
       IN
       \E result \in RunResults(argv) :
        /\ Logged(s, Call("snapper delete", argv, result))
        /\ Finish(s, DeleteSnapshotReply(result, config, snap_id))
    /\ UNCHANGED <<osVars, req, loc, sizeVars, collectorVars>>

\* cmd of api_create_btrfs: ['mkfs.btrfs'], then ['-L', label] if label, then device.
MkfsArgv(device, label) ==
    (IF Falsy(label) THEN <<>> ELSE <<<<"-L">>, label>>) \o <<device>>

\* The reply of api_create_btrfs to mkfs.btrfs's result.
CreateBtrfsReply(result, device) ==
    CASE result.rc = "ok" ->
           Resp(200, "message", "Successfully created Btrfs filesystem on {}", <<device>>)
      [] result.rc = "fail" -> Resp(500, "error", "Creation failed: {}", <<result.stderr>>)
      [] result.rc = "raise" -> ExcResp

\* api_create_btrfs: subprocess.run(cmd).
CreateBtrfs(s) ==
    /\ pc[s] = "create_btrfs"
    /\ LET device == req[s].device
           label == IF req[s].label = None THEN Empty ELSE req[s].label
           cmd == MkfsArgv(device, label)
       IN
       \E result \in RunResults(cmd) :
        /\ Logged(s, Call("mkfs.btrfs", cmd, result))
        /\ Finish(s, CreateBtrfsReply(result, device))
    /\ UNCHANGED <<osVars, req, loc, sizeVars, collectorVars>>

\* CreateSnapshotReply that never looks at the exit status.
CreateSnapshotReplySwallow(result, config) ==
    IF result.rc = "raise" THEN ExcResp
    ELSE Resp(200, "message", "Successfully created snapshot in config {}", <<Str(config)>>)

\* The reply of api_create_snapshot to the create command's result.
CreateSnapshotReply(result, config) ==
    CASE result.rc = "ok" ->
           Resp(200, "message", "Successfully created snapshot in config {}", <<Str(config)>>)
      [] result.rc = "fail" -> Resp(500, "error", "Creation failed: {}", <<result.stderr>>)
      [] result.rc = "raise" -> ExcResp

\* api_create_snapshot: subprocess.run(['snapper', '-c', config, 'create',
\* '--description', description]).
CreateSnapshot(s) ==
    /\ pc[s] = "create_snapshot"
    /\ LET config == req[s].config
           description == IF req[s].description = None
                          THEN <<"Created via Web UI">> ELSE req[s].description
           argv == <<config, description>>
       IN
       \E result \in RunResults(argv) :
        /\ Logged(s, Call("snapper create", argv, result))
        /\ Finish(s, CreateSnapshotReply(result, config))
    /\ UNCHANGED <<osVars, req, loc, sizeVars, collectorVars>>

-----------------------------------------------------------------------------
(* Size parser *)

LowerCase == <<"a", "b", "c", "d", "e", "f", "g", "h", "i", "j", "k", "l", "m",
               "n", "o", "p", "q", "r", "s", "t", "u", "v", "w", "x", "y", "z">>
UpperCase == <<"A", "B", "C", "D", "E", "F", "G", "H", "I", "J", "K", "L", "M",
               "N", "O", "P", "Q", "R", "S", "T", "U", "V", "W", "X", "Y", "Z">>

UpperChar(c) ==
    IF \E i \in 1..Len(LowerCase) : LowerCase[i] = c
    THEN UpperCase[CHOOSE i \in 1..Len(LowerCase) : LowerCase[i] = c]
    ELSE c

\* Upper with the call left out.
UpperMissing(s) == s

\* s.upper()
Upper(s) == [i \in 1..Len(s) |-> UpperChar(s[i])]

DecimalDigits == <<"0", "1", "2", "3", "4", "5", "6", "7", "8", "9">>

IsDigit(c) == \E i \in 1..Len(DecimalDigits) : DecimalDigits[i] = c

DigitVal(c) == (CHOOSE i \in 1..Len(DecimalDigits) : DecimalDigits[i] = c) - 1

AllDigits(s) == \A i \in 1..Len(s) : IsDigit(s[i])

\* The number a string of decimal digits spells.
RECURSIVE DigitsToNat(_)
DigitsToNat(ds) ==
    IF ds = <<>> THEN 0
    ELSE 10 * DigitsToNat(SubSeq(ds, 1, Len(ds) - 1)) + DigitVal(ds[Len(ds)])

RECURSIVE Pow10(_)
Pow10(n) == IF n = 0 THEN 1 ELSE 10 * Pow10(n - 1)

\* Index of the first "." of s at or after i, Len(s)+1 if none.
RECURSIVE FirstDot(_, _)
FirstDot(s, i) ==
    IF i > Len(s) THEN i
    ELSE IF s[i] = "." THEN i
    ELSE FirstDot(s, i + 1)

\* float(s) for text made of digits, ".", signs, letters and blanks (no
\* exponent, no underscore): surrounding whitespace is dropped, an optional
\* sign is read, then "inf", "infinity" or "nan" in any case, or digits with
\* at most one "." and at least one digit.  A finite value is digits /
\* 10^scale; err stands for ValueError.
ParseFloat(s) ==
    LET t == Strip(s)
        signed == t # <<>> /\ t[1] \in {"+", "-"}
        neg == signed /\ t[1] = "-"
        body == IF signed THEN Tail(t) ELSE t
        word == Upper(body)
        d == FirstDot(body, 1)
        ip == SubSeq(body, 1, d - 1)
        fp == Drop(body, d)
        bad == [kind |-> "err", neg |-> FALSE, digits |-> <<>>, scale |-> 0]
    IN
    IF word \in {<<"I", "N", "F">>, <<"I", "N", "F", "I", "N", "I", "T", "Y">>}
    THEN [kind |-> "inf", neg |-> neg, digits |-> <<>>, scale |-> 0]
    ELSE IF word = <<"N", "A", "N">>
    THEN [kind |-> "nan", neg |-> neg, digits |-> <<>>, scale |-> 0]
    ELSE IF AllDigits(ip) /\ AllDigits(fp) /\ Len(ip) + Len(fp) >= 1
    THEN [kind |-> "num", neg |-> neg, digits |-> ip \o fp, scale |-> Len(fp)]
    ELSE bad

\* Python integers: a sign and a magnitude in base 1024, most significant
\* limb first and no leading zero limb, so 1024^4 and beyond are exact.
Limb == 1024

RECURSIVE NatLimbs(_)
NatLimbs(n) == IF n = 0 THEN <<>> ELSE NatLimbs(n \div Limb) \o <<n % Limb>>

RECURSIVE Normal(_)
Normal(l) == IF l # <<>> /\ Head(l) = 0 THEN Normal(Tail(l)) ELSE l

PyInt(neg, mag) == [neg |-> neg /\ Normal(mag) # <<>>, mag |-> Normal(mag)]

Zero == PyInt(FALSE, <<>>)

\* mag * 1024^k
ShiftLimbs(mag, k) == Normal(mag \o [i \in 1..k |-> 0])

\* Quotient of mag by d (d < 2^20), by long division from the top limb.
RECURSIVE DivLimbs(_, _, _, _)
DivLimbs(mag, d, i, r) ==
    IF i > Len(mag) THEN <<>>
    ELSE LET cur == r * Limb + mag[i] IN
         <<cur \div d>> \o DivLimbs(mag, d, i + 1, cur % d)

\* int(num * 1024^power) for the finite float num: the conversion to int
\* drops the fraction, towards zero.  The float is taken as the exact decimal
\* it was read from: below 128 * 1024^4 with at most three decimals the
\* double-precision product has the same integer part.
IntOfProduct(num, power) ==
    PyInt(num.neg,
          DivLimbs(ShiftLimbs(NatLimbs(DigitsToNat(num.digits)), power),
                   Pow10(num.scale), 1, 0))

\* units of parse_size, in the dictionary's order; the multiplier is 1024^power.
units ==
    << [unit |-> "B", power |-> 0], [unit |-> "K", power |-> 1],
       [unit |-> "M", power |-> 2], [unit |-> "G", power |-> 3],
       [unit |-> "T", power |-> 4] >>

\* s.endswith(c) for a one-character c
EndsWith(s, c) == s # <<>> /\ s[Len(s)] = c

Return(v) == [exc |-> "", value |-> v]

Raise(e) == [exc |-> e, value |-> Zero]

\* The body of the loop of parse_size for the unit that ends the string:
\*     try: num = float(size_str[:-1]); return int(num * multiplier)
\*     except ValueError: return 0
\* float raises ValueError for text that is no number, int raises ValueError
\* for nan and OverflowError, which nothing catches, for an infinity.
ConvertWith(text, power) ==
    LET num == ParseFloat(SubSeq(text, 1, Len(text) - 1)) IN
    CASE num.kind = "err" -> Return(Zero)
      [] num.kind = "nan" -> Return(Zero)
      [] num.kind = "inf" -> Raise("OverflowError")
      [] num.kind = "num" -> Return(IntOfProduct(num, power))

\* for unit, multiplier in units.items(): if size_str.endswith(unit): ...
\* and the return 0 after the loop.
RECURSIVE UnitLoop(_, _)
UnitLoop(text, i) ==
    IF i > Len(units) THEN Return(Zero)
    ELSE IF EndsWith(text, units[i].unit) THEN ConvertWith(text, units[i].power)
    ELSE UnitLoop(text, i + 1)

\* parse_size(size_str), text standing for size_str
parse_size(text) ==
    IF Falsy(text) \/ text = <<"0">> THEN Return(Zero)
    ELSE UnitLoop(Strip(Upper(text)), 1)

\* The size strings the parser is run on: a number part (sign, digits, point,
\* digits), or some other text, followed by a unit part; and None.
SizeDigits == {"0", "1", "5", "9"}

RECURSIVE DigitStrings(_)
DigitStrings(n) ==
    IF n = 0 THEN {<<>>}
    ELSE LET shorter == DigitStrings(n - 1) IN
         shorter \cup {Append(q, c) : q \in {r \in shorter : Len(r) = n - 1}, c \in SizeDigits}

NumberParts ==
    {[cls |-> "number", sign |-> sg, ip |-> ip, dot |-> FALSE, fp |-> <<>>] :
        sg \in {<<>>, <<"+">>, <<"-">>}, ip \in DigitStrings(MaxIntDigits)}
    \cup
    {[cls |-> "number", sign |-> sg, ip |-> ip, dot |-> TRUE, fp |-> fp] :
        sg \in {<<>>, <<"+">>, <<"-">>}, ip \in DigitStrings(MaxIntDigits),
        fp \in DigitStrings(MaxFracDigits)}

OtherTexts ==
    { <<"i", "n", "f">>, <<"I", "n", "f">>, <<"-", "i", "n", "f">>,
      <<"i", "n", "f", "i", "n", "i", "t", "y">>, <<"n", "a", "n">>,
      <<"a", "b", "c">>, <<"1", ".", "5", ".", "5">>, <<"-", "-", "1">>,
      <<"1", "x">>, <<" ", "1">>, <<"1", " ">>, <<" ">>, <<"1", "-">> }

TextParts ==
    {[cls |-> "text", sign |-> <<>>, ip |-> x, dot |-> FALSE, fp |-> <<>>] : x \in OtherTexts}

UnitParts ==
    {<<>>, <<"B">>, <<"K">>, <<"M">>, <<"G">>, <<"T">>,
     <<"b">>, <<"k">>, <<"m">>, <<"g">>, <<"t">>, <<"X">>, <<"P">>, <<"K", " ">>}

SizeForms == [num : NumberParts \cup TextParts, unit : UnitParts]

\* The string a form spells.
Render(f) ==
    f.num.sign \o f.num.ip \o (IF f.num.dot THEN <<".">> ELSE <<>>) \o f.num.fp \o f.unit

NoForm == [num |-> [cls |-> "none", sign |-> <<>>, ip |-> <<>>, dot |-> FALSE, fp |-> <<>>],
           unit |-> <<>>]

\* The collectors when nothing has called them.
BlkIdle ==
    /\ blk_pc = "off"
    /\ blk_result = [rc |-> "none", kind |-> "none", blockdevices |-> <<>>]
    /\ blk_ret = <<>>

FsIdle ==
    /\ fs_pc = "off"
    /\ fs_result = [rc |-> "none", stdout |-> <<>>]
    /\ fs_lines = <<>>
    /\ fs_i = 0
    /\ filesystems = <<>>
    /\ current_fs = <<>>
    /\ fs_ret = <<>>

RaidIdle ==
    /\ raid_pc = "off"
    /\ raid_result = [rc |-> "none", stdout |-> <<>>]
    /\ raid_info = <<>>
    /\ raid_ret = <<>>

SnapIdle ==
    /\ snap_pc = "off"
    /\ configs = <<>>
    /\ snap_i = 0
    /\ snapshots = <<>>
    /\ snap_log = <<>>
    /\ snap_ret = <<>>

SizeIdle ==
    /\ size_form = NoForm
    /\ size_str = None
    /\ size_pc = "off"
    /\ size_ret = Return(Zero)

OrchestratorIdle ==
    /\ known = {}
    /\ mtab = <<>>
    /\ dirs = {}
    /\ pc = [s \in Slots |-> "off"]
    /\ req = [s \in Slots |-> Blank]
    /\ loc = [s \in Slots |-> NoLoc]
    /\ resp = [s \in Slots |-> NoResp]
    /\ log = [s \in Slots |-> <<>>]

InitSize ==
    /\ OrchestratorIdle
    /\ BlkIdle /\ FsIdle /\ RaidIdle /\ SnapIdle
    /\ \/ size_form \in SizeForms /\ size_str = Render(size_form)
       \/ size_form = NoForm /\ size_str = None
    /\ size_pc = "call"
    /\ size_ret = Return(Zero)

\* A caller runs parse_size on the string.
ParseSize ==
    /\ size_pc = "call"
    /\ size_ret' = parse_size(size_str)
    /\ size_pc' = "ret"
    /\ UNCHANGED <<osVars, reqVars, size_form, size_str, collectorVars>>

NextSize == ParseSize

SpecSize == InitSize /\ [][NextSize]_vars

-----------------------------------------------------------------------------
(* Block-device collector *)

\* Most nodes of the device tree lsblk reports.
MaxNodes == 3

\* A key a JSON object does not have.
Missing == <<"<missing>">>

\* device.get(key, default): the default only for a key that is not there, a
\* JSON null reads None.
Get(device, key, default) == IF device[key] = Missing THEN default ELSE device[key]

\* The objects lsblk -J may print for a device, without their children: a
\* disk, a partition of it, and an object that has none of the keys.
DiskSda ==
    [name |-> <<"s", "d", "a">>, size |-> <<"1", "G">>, type |-> <<"disk">>,
     mountpoint |-> None, fstype |-> None, model |-> <<"M1">>, serial |-> <<"S1">>]

PartSda1 ==
    [name |-> <<"s", "d", "a", "1">>, size |-> <<"5", "1", "2", "M">>, type |-> <<"part">>,
     mountpoint |-> <<"/", "x">>, fstype |-> <<"btrfs">>, model |-> None, serial |-> None]

NoKeys ==
    [name |-> Missing, size |-> Missing, type |-> Missing, mountpoint |-> Missing,
     fstype |-> Missing, model |-> Missing, serial |-> Missing]

DevicePool == {DiskSda, PartSda1, NoKeys}

\* The device lists with n nodes in all: a list of objects, each one with the
\* list of its children (a leaf has no children key).
RECURSIVE ForestsOf(_)
ForestsOf(n) ==
    IF n = 0 THEN {<<>>}
    ELSE UNION { { <<[dev |-> d, children |-> c]>> \o r :
                     d \in DevicePool, c \in ForestsOf(k), r \in ForestsOf(n - 1 - k) } :
                 k \in 0..(n - 1) }

Forests == UNION {ForestsOf(n) : n \in 0..MaxNodes}

\* What the lsblk call can end in: subprocess.run raises, or returns with a
\* non-zero exit status, or returns zero with stdout that is no JSON, JSON
\* without the blockdevices key, or JSON with a device list.
LsblkResults ==
    { [rc |-> "raise", kind |-> "none", blockdevices |-> <<>>],
      [rc |-> "fail", kind |-> "none", blockdevices |-> <<>>],
      [rc |-> "ok", kind |-> "invalid", blockdevices |-> <<>>],
      [rc |-> "ok", kind |-> "no_key", blockdevices |-> <<>>] }
    \cup {[rc |-> "ok", kind |-> "tree", blockdevices |-> f] : f \in Forests}

\* f"{x}"
Fmt(x) == IF x = None THEN <<"None">> ELSE x

\* dev_info of extract_devices for one device; name is the name already
\* prefixed, size the integer parse_size returned.
DevInfo(device, name, size) ==
    [name |-> name,
     size |-> size,
     type |-> Get(device, "type", Empty),
     mount_point |-> Get(device, "mountpoint", Empty),
     fstype |-> Get(device, "fstype", Empty),
     model |-> Get(device, "model", Empty),
     serial |-> Get(device, "serial", Empty)]

\* extract_devices(blockdevices, parent) appending to devices: the list of
\* records after the call, and exc when parse_size raised inside it.
RECURSIVE extract_devices(_, _, _)
extract_devices(blockdevices, parent, devices) ==
    IF blockdevices = <<>> THEN [exc |-> "", devices |-> devices]
    ELSE LET device == Head(blockdevices).dev
             children == Head(blockdevices).children
             own == Get(device, "name", Empty)
             name == IF Falsy(parent) THEN own ELSE parent \o Fmt(own)
             size == parse_size(Get(device, "size", <<"0">>))
             appended == Append(devices, DevInfo(device, name, size.value))
             below == IF children = <<>> THEN [exc |-> "", devices |-> appended]
                      ELSE extract_devices(children, Fmt(name), appended)
         IN
         IF size.exc # "" THEN [exc |-> size.exc, devices |-> devices]
         ELSE IF below.exc # "" THEN below
         ELSE extract_devices(Tail(blockdevices), parent, below.devices)

\* get_block_devices(): [] when lsblk cannot be run, exits non-zero or prints
\* no JSON, or when anything below raises; the flattened list otherwise.
get_block_devices(result) ==
    IF result.rc # "ok" \/ result.kind = "invalid" THEN <<>>
    ELSE IF result.kind = "no_key" THEN <<>>
    ELSE LET r == extract_devices(result.blockdevices, Empty, <<>>) IN
         IF r.exc # "" THEN <<>> ELSE r.devices

InitDevices ==
    /\ OrchestratorIdle
    /\ SizeIdle
    /\ FsIdle /\ RaidIdle /\ SnapIdle
    /\ blk_pc = "call"
    /\ blk_result \in LsblkResults
    /\ blk_ret = <<>>

\* A caller runs get_block_devices.
GetBlockDevices ==
    /\ blk_pc = "call"
    /\ blk_ret' = get_block_devices(blk_result)
    /\ blk_pc' = "ret"
    /\ UNCHANGED <<osVars, reqVars, sizeVars, blk_result, fsVars, raidVars, snapVars>>

NextDevices == GetBlockDevices

SpecDevices == InitDevices /\ [][NextDevices]_vars

\* The nodes of a device list, every node before its children and the
\* children before the node's next sibling.
RECURSIVE Preorder(_)
Preorder(forest) ==
    IF forest = <<>> THEN <<>>
    ELSE <<Head(forest).dev>> \o Preorder(Head(forest).children) \o Preorder(Tail(forest))

\* C11 as stated: the flattened list has exactly one record per node of the
\* device tree, a parent's record before the records of its children, and
\* each record carries its node's own name (sda, then sda1 for the child named
\* sda1), size, type, mount point, filesystem type, model and serial.
C11_FlattenKeepsNodes ==
    (blk_pc = "ret" /\ blk_result.rc = "ok" /\ blk_result.kind = "tree") =>
        LET nodes == Preorder(blk_result.blockdevices) IN
        /\ Len(blk_ret) = Len(nodes)
        /\ \A i \in 1..Len(nodes) :
              /\ blk_ret[i].name = Get(nodes[i], "name", Empty)
              /\ blk_ret[i].size = parse_size(Get(nodes[i], "size", <<"0">>)).value
              /\ blk_ret[i].type = Get(nodes[i], "type", Empty)
              /\ blk_ret[i].mount_point = Get(nodes[i], "mountpoint", Empty)
              /\ blk_ret[i].fstype = Get(nodes[i], "fstype", Empty)
              /\ blk_ret[i].model = Get(nodes[i], "model", Empty)
              /\ blk_ret[i].serial = Get(nodes[i], "serial", Empty)

-----------------------------------------------------------------------------
(* Filesystem collector *)

\* Most lines of the output of `btrfs filesystem show`.
MaxLines == 4

\* s.startswith(prefix)
StartsWith(s, prefix) == Len(s) >= Len(prefix) /\ SubSeq(s, 1, Len(prefix)) = prefix

\* s.strip("'")
RECURSIVE StripQuotes(_)
StripQuotes(s) ==
    IF s # Empty /\ Head(s) = "'" THEN StripQuotes(Tail(s))
    ELSE IF s # Empty /\ s[Len(s)] = "'" THEN StripQuotes(SubSeq(s, 1, Len(s) - 1))
    ELSE s

\* Lines the listing tool may print: the first line of a filesystem's block
\* with a quoted label, with no label, and one cut short; an indented device
\* line; a line with devid further in; a line that starts with Total devices:
\* and has devid in it; the warning about missing devices; the empty line.
LabelLineA == <<"Label:", " ", "'", "a", "'", " ", " ", "uuid:", " ">> \o UuidA1
LabelLineB == <<"Label:", " ", "none", " ", " ", "uuid:", " ">> \o UuidB1
LabelLineShort == <<"Label:", " ", "x">>
DevidLine1 == <<"\t", "devid", " ", "1">>
PathLine == <<"x", " ", "devid">>
TotalLine == <<"Total devices:", " ", "devid">>
MissingLine == <<"\t", "*** Some devices missing">>
BlankLine == <<>>

LinePool ==
    {LabelLineA, LabelLineB, LabelLineShort, DevidLine1, PathLine, TotalLine, MissingLine,
     BlankLine}

\* The lines joined by newlines.
RECURSIVE JoinLines(_)
JoinLines(ls) ==
    IF ls = <<>> THEN Empty
    ELSE IF Len(ls) = 1 THEN ls[1]
    ELSE ls[1] \o <<"\n">> \o JoinLines(Tail(ls))

RECURSIVE LineSeqs(_)
LineSeqs(n) ==
    IF n = 0 THEN {<<>>}
    ELSE LET shorter == LineSeqs(n - 1) IN
         shorter \cup {Append(q, l) : q \in {r \in shorter : Len(r) = n - 1}, l \in LinePool}

Listings == {JoinLines(ls) : ls \in LineSeqs(MaxLines)}

\* What `btrfs filesystem show` can end in: subprocess.run raises, or it
\* returns with a non-zero exit status, or with zero and a listing on stdout.
ShowResults ==
    { [rc |-> "raise", stdout |-> Empty], [rc |-> "fail", stdout |-> Empty] }
    \cup {[rc |-> "ok", stdout |-> o] : o \in Listings}

\* The mount table the collector finds: the filesystem of LabelLineA is
\* mounted, the one of LabelLineB is not.
FsTables == {<<[target |-> <<"/", "x">>, source |-> <<"UUID=">> \o UuidA1]>>}

\* The options findmnt prints for a mount.
OptionsOf(entry) == <<"rw">>

\* stdout of `findmnt -t btrfs -n -o OPTIONS,SOURCE`.
RECURSIVE FindmntOptions(_)
FindmntOptions(t) ==
    IF t = <<>> THEN Empty
    ELSE OptionsOf(Head(t)) \o <<" ">> \o Head(t).source \o <<"\n">> \o FindmntOptions(Tail(t))

\* `... | grep '<uuid>'`: the lines of the text that have the UUID in them,
\* each with its newline; the pipeline exits zero when there is one.
RECURSIVE GrepLines(_, _)
GrepLines(ls, uuid) ==
    IF ls = <<>> THEN Empty
    ELSE (IF Contains(Head(ls), uuid) THEN Head(ls) \o <<"\n">> ELSE Empty)
         \o GrepLines(Tail(ls), uuid)

Grep(text, uuid) ==
    LET out == GrepLines(SplitLines(Strip(text)), uuid) IN
    [returncode |-> IF out = Empty THEN 1 ELSE 0, stdout |-> out]

\* The record a Label: line opens.
NewFs(label, uuid, id) ==
    [label |-> label, uuid |-> uuid, id |-> id, devices |-> <<>>, total_size |-> 0,
     used |-> 0, free |-> 0, status |-> <<"active">>, mount_point |-> Empty,
     mount_options |-> Empty]

\* The lookups after a Label: line: the first token of the first findmnt line
\* with the UUID in it becomes the mount point and, from a second findmnt
\* call, the mount options.  ran counts the calls that did not raise (an
\* exception in either is swallowed by the bare except).
WithMounts(fs, table, ran) ==
    LET mount_result == Grep(FindmntStdout(table), fs.uuid)
        mount_parts == SplitWs(Strip(mount_result.stdout))
        opts_result == Grep(FindmntOptions(table), fs.uuid)
        opts_parts == SplitWs(Strip(opts_result.stdout))
    IN
    IF ran = 0 \/ mount_result.returncode # 0 \/ mount_parts = <<>> THEN fs
    ELSE IF ran = 1 \/ opts_result.returncode # 0 \/ opts_parts = <<>>
    THEN [fs EXCEPT !.mount_point = mount_parts[1]]
    ELSE [fs EXCEPT !.mount_point = mount_parts[1], !.mount_options = opts_parts[1]]

\* The branch of the loop's if/elif chain a stripped line takes; open tells
\* whether current_fs holds a record.
Branch(line, open) ==
    IF StartsWith(line, <<"Label:">>) THEN "label"
    ELSE IF \/ StartsWith(line, <<"Total devices:">>)
            \/ StartsWith(line, <<"devid">>)
            \/ StartsWith(line, <<"Device location:">>)
    THEN "device"
    ELSE IF StartsWith(line, <<"*** Some devices missing">>) THEN "missing"
    ELSE IF line = Empty /\ open THEN "blank"
    ELSE "none"

\* The line the loop is at, stripped.
CurrentLine == Strip(fs_lines[fs_i])

AtLine(branch) ==
    /\ fs_pc = "loop"
    /\ fs_i <= Len(fs_lines)
    /\ Branch(CurrentLine, current_fs # <<>>) = branch

NextLine ==
    /\ fs_i' = fs_i + 1
    /\ UNCHANGED <<osVars, reqVars, sizeVars, blkVars, raidVars, snapVars>>
    /\ UNCHANGED <<fs_pc, fs_result, fs_lines, fs_ret>>

InitFilesystems ==
    /\ known = {} /\ mtab \in FsTables /\ dirs = {}
    /\ pc = [s \in Slots |-> "off"] /\ req = [s \in Slots |-> Blank]
    /\ loc = [s \in Slots |-> NoLoc] /\ resp = [s \in Slots |-> NoResp]
    /\ log = [s \in Slots |-> <<>>]
    /\ SizeIdle
    /\ BlkIdle /\ RaidIdle /\ SnapIdle
    /\ fs_pc = "call"
    /\ fs_result \in ShowResults
    /\ fs_lines = <<>>
    /\ fs_i = 0
    /\ filesystems = <<>>
    /\ current_fs = <<>>
    /\ fs_ret = <<>>

\* get_btrfs_filesystems: subprocess.run("btrfs filesystem show"), the check
\* of its exit status and output.split('\n').
FsShow ==
    /\ fs_pc = "call"
    /\ IF fs_result.rc = "ok"
       THEN /\ fs_lines' = SplitLines(fs_result.stdout)
            /\ fs_i' = 1
            /\ fs_pc' = "loop"
            /\ UNCHANGED fs_ret
       ELSE /\ fs_ret' = <<>>
            /\ fs_pc' = "ret"
            /\ UNCHANGED <<fs_lines, fs_i>>
    /\ UNCHANGED <<osVars, reqVars, sizeVars, blkVars, raidVars, snapVars>>
    /\ UNCHANGED <<fs_result, filesystems, current_fs>>

\* A line that starts with Label: with four tokens or more opens a record in
\* current_fs, whatever current_fs held, and looks its mount up.
FsLabelLine ==
    /\ AtLine("label")
    /\ LET parts == SplitWs(CurrentLine) IN
       IF Len(parts) >= 4
       THEN \E ran \in 0..2 :
              current_fs' = <<WithMounts(NewFs(StripQuotes(parts[2]), parts[4],
                                               Len(filesystems) + 1), mtab, ran)>>
       ELSE UNCHANGED current_fs
    /\ UNCHANGED filesystems
    /\ NextLine

\* FsDeviceLine that puts the line in front of the record's devices.
FsDeviceLinePrepends ==
    /\ AtLine("device")
    /\ IF current_fs # <<>> /\ Contains(CurrentLine, <<"devid">>)
       THEN current_fs' = <<[current_fs[1] EXCEPT !.devices = <<CurrentLine>> \o @]>>
       ELSE UNCHANGED current_fs
    /\ UNCHANGED filesystems
    /\ NextLine

\* A line that starts with Total devices:, devid or Device location: is
\* appended to the open record's devices when it has devid in it.
FsDeviceLine ==
    /\ AtLine("device")
    /\ IF current_fs # <<>> /\ Contains(CurrentLine, <<"devid">>)
       THEN current_fs' = <<[current_fs[1] EXCEPT !.devices = Append(@, CurrentLine)]>>
       ELSE UNCHANGED current_fs
    /\ UNCHANGED filesystems
    /\ NextLine

\* FsMissingLine that, with no record open, marks the record closed last.
FsMissingLineMarksClosed ==
    /\ AtLine("missing")
    /\ IF current_fs # <<>>
       THEN /\ current_fs' = <<[current_fs[1] EXCEPT !.status = <<"degraded">>]>>
            /\ UNCHANGED filesystems
       ELSE /\ UNCHANGED current_fs
            /\ filesystems' =
                  IF filesystems = <<>> THEN filesystems
                  ELSE [filesystems EXCEPT ![Len(filesystems)].status = <<"degraded">>]
    /\ NextLine

\* A line that starts with *** Some devices missing marks the open record.
FsMissingLine ==
    /\ AtLine("missing")
    /\ IF current_fs # <<>>
       THEN current_fs' = <<[current_fs[1] EXCEPT !.status = <<"degraded">>]>>
       ELSE UNCHANGED current_fs
    /\ UNCHANGED filesystems
    /\ NextLine

\* An empty line closes the open record.
FsBlankLine ==
    /\ AtLine("blank")
    /\ filesystems' = Append(filesystems, current_fs[1])
    /\ current_fs' = <<>>
    /\ NextLine

\* Any other line changes nothing.
FsOtherLine ==
    /\ AtLine("none")
    /\ UNCHANGED <<filesystems, current_fs>>
    /\ NextLine

\* FsReturn without the append of a record still open after the last line.
FsReturnDropsOpen ==
    /\ fs_pc = "loop"
    /\ fs_i > Len(fs_lines)
    /\ fs_ret' = filesystems
    /\ fs_pc' = "ret"
    /\ UNCHANGED <<osVars, reqVars, sizeVars, blkVars, raidVars, snapVars>>
    /\ UNCHANGED <<fs_result, fs_lines, fs_i, filesystems, current_fs>>

\* After the last line: a record still open is appended; the loop over the
\* usage of each filesystem stores nothing; return filesystems.
FsReturn ==
    /\ fs_pc = "loop"
    /\ fs_i > Len(fs_lines)
    /\ filesystems' = IF current_fs # <<>> THEN Append(filesystems, current_fs[1])
                      ELSE filesystems
    /\ fs_ret' = filesystems'
    /\ fs_pc' = "ret"
    /\ UNCHANGED <<osVars, reqVars, sizeVars, blkVars, raidVars, snapVars>>
    /\ UNCHANGED <<fs_result, fs_lines, fs_i, current_fs>>

NextFilesystems ==
    \/ FsShow
    \/ FsLabelLine
    \/ FsDeviceLine
    \/ FsMissingLine
    \/ FsBlankLine
    \/ FsOtherLine
    \/ FsReturn

SpecFilesystems == InitFilesystems /\ [][NextFilesystems]_vars

-----------------------------------------------------------------------------
(* Properties of the filesystem collector *)

\* The lines of the listing the collector was given.
InputLines == SplitLines(fs_result.stdout)

\* A Label: line with at least four tokens, and an empty line, indentation
\* aside.
IsLabelLine(l) == StartsWith(Strip(l), <<"Label:">>) /\ Len(SplitWs(l)) >= 4

IsBlankLine(l) == Strip(l) = Empty

\* A device line as the listing tool prints it: it begins with devid.
IsDevidLine(l) == StartsWith(Strip(l), <<"devid">>)

HasDevid(l) == Contains(l, <<"devid">>)

IsMissingLine(l) == StartsWith(Strip(l), <<"*** Some devices missing">>)

\* The positions of the Label: lines, in input order.
RECURSIVE LabelPositions(_, _)
LabelPositions(ls, i) ==
    IF i > Len(ls) THEN <<>>
    ELSE (IF IsLabelLine(ls[i]) THEN <<i>> ELSE <<>>) \o LabelPositions(ls, i + 1)

\* The position of the first empty line after position i, one past the last
\* line if there is none: where the block that starts at i ends.
RECURSIVE BlockEnd(_, _)
BlockEnd(ls, i) ==
    IF i + 1 > Len(ls) THEN Len(ls) + 1
    ELSE IF IsBlankLine(ls[i + 1]) THEN i + 1
    ELSE BlockEnd(ls, i + 1)

\* The devid lines among lines a to b, stripped, in input order.
RECURSIVE DevidLinesOf(_, _, _)
DevidLinesOf(ls, a, b) ==
    IF a > b THEN <<>>
    ELSE (IF IsDevidLine(ls[a]) THEN <<Strip(ls[a])>> ELSE <<>>) \o DevidLinesOf(ls, a + 1, b)

\* Blocks separated by empty lines: a Label: line comes first or right after
\* an empty line, every other line that is not empty comes right after a line
\* of its block, and devid occurs only in lines that begin with it.
MadeOfBlocks(ls) ==
    \A i \in 1..Len(ls) :
        /\ IsLabelLine(ls[i]) => (i = 1 \/ IsBlankLine(ls[i - 1]))
        /\ (~IsLabelLine(ls[i]) /\ ~IsBlankLine(ls[i])) => (i > 1 /\ ~IsBlankLine(ls[i - 1]))
        /\ HasDevid(ls[i]) => IsDevidLine(ls[i])

LabelBetween(ls, a, b) == \E i \in (a + 1)..(b - 1) : IsLabelLine(ls[i])

\* The positions of the Label: lines whose record is returned: the block ends
\* (an empty line, or the end of the input) before another Label: line comes.
RECURSIVE ClosedPositions(_, _)
ClosedPositions(ls, i) ==
    IF i > Len(ls) THEN <<>>
    ELSE (IF IsLabelLine(ls[i]) /\ ~LabelBetween(ls, i, BlockEnd(ls, i)) THEN <<i>> ELSE <<>>)
         \o ClosedPositions(ls, i + 1)

\* C13: for any listing, a returned record has status degraded if and only
\* if a line beginning (after its indentation) with *** Some devices missing
\* lies after the record's Label: line and before the empty line or end of
\* input that closed it; every other returned record has status active.
C13_DegradedIffMissingLine ==
    (fs_pc = "ret" /\ fs_result.rc = "ok") =>
        LET closed == ClosedPositions(InputLines, 1) IN
        /\ Len(fs_ret) = Len(closed)
        /\ \A j \in 1..Len(closed) :
              LET marked == \E i \in (closed[j] + 1)..(BlockEnd(InputLines, closed[j]) - 1) :
                                IsMissingLine(InputLines[i])
              IN
              /\ fs_ret[j].uuid = SplitWs(InputLines[closed[j]])[4]
              /\ fs_ret[j].status = IF marked THEN <<"degraded">> ELSE <<"active">>

C13_Witness ==
    /\ fs_pc = "ret"
    /\ InputLines = <<LabelLineA, BlankLine, LabelLineB, MissingLine>>
    /\ Len(fs_ret) = 2
    /\ fs_ret[1].status = <<"active">>
    /\ fs_ret[2].status = <<"degraded">>

\* The device list of the record in current_fs, empty when none is open.
DevicesOf(cur) == IF cur = <<>> THEN <<>> ELSE cur[1].devices

\* A step of the loop over one line while a record is open.
OpenStep == fs_pc = "loop" /\ fs_i' = fs_i + 1 /\ current_fs # <<>>

\* The step appends the line, without its indentation, to the open record.
Appends(line) ==
    /\ current_fs' # <<>>
    /\ current_fs'[1].devices = Append(current_fs[1].devices, Strip(line))

\* The step appends nothing: the open record keeps its device list, or it
\* is closed, or a new record with no devices takes its place.
AppendsNothing == DevicesOf(current_fs') \in {current_fs[1].devices, <<>>}

\* A record that was closed keeps its device list.
ClosedUntouched ==
    \A j \in 1..Len(filesystems) :
        /\ j <= Len(filesystems')
        /\ filesystems'[j].devices = filesystems[j].devices

\* C14 as stated: while a record is open every input line that has devid in
\* it is appended to the record's device list (in input order, indentation
\* aside), and no line without devid is ever appended.
C14_LinesWithDevidAppended ==
    [][/\ OpenStep => IF HasDevid(fs_lines[fs_i]) THEN Appends(fs_lines[fs_i])
                      ELSE AppendsNothing
       /\ ClosedUntouched]_vars

\* A line the device branch of the loop takes: without its indentation it
\* starts with devid, Total devices: or Device location:.
IsDeviceBranchLine(l) ==
    \/ StartsWith(Strip(l), <<"devid">>)
    \/ StartsWith(Strip(l), <<"Total devices:">>)
    \/ StartsWith(Strip(l), <<"Device location:">>)

\* C14 amended: while a record is open every input line that has devid in it
\* and, indentation aside, starts with devid, Total devices: or Device
\* location: is appended to the record's device list (in input order,
\* without its indentation), and no other line is ever appended.
C14_DeviceLinesAppended ==
    [][/\ OpenStep => IF HasDevid(fs_lines[fs_i]) /\ IsDeviceBranchLine(fs_lines[fs_i])
                      THEN Appends(fs_lines[fs_i])
                      ELSE AppendsNothing
       /\ ClosedUntouched]_vars

C14_Witness ==
    /\ fs_pc = "ret"
    /\ InputLines = <<LabelLineA, DevidLine1, PathLine, TotalLine>>
    /\ Len(fs_ret) = 1
    /\ fs_ret[1].devices = <<<<"devid", " ", "1">>, TotalLine>>

\* C19 as stated: for any sequence of listing lines the number of records
\* returned equals the number of Label: lines with at least four tokens.
C19_RecordPerLabelLine ==
    (fs_pc = "ret" /\ fs_result.rc = "ok") =>
        Len(fs_ret) = Len(LabelPositions(InputLines, 1))

-----------------------------------------------------------------------------
(* RAID profile collector *)

\* The entry appended to raid_info for a filesystem.
RaidEntry(fs) ==
    [fs |-> fs, data_profile |-> <<"single">>, metadata_profile |-> <<"single">>,
     global_reserve |-> 0]

\* raid_info after the loop over the lines: one entry for every line that has
\* Label: in it and four tokens or more, with the fourth token.
RECURSIVE RaidInfo(_)
RaidInfo(lines) ==
    IF lines = <<>> THEN <<>>
    ELSE LET line == Head(lines)
             parts == SplitWs(line)
         IN
         (IF Contains(line, <<"Label:">>) /\ Len(parts) >= 4
          THEN <<RaidEntry(parts[4])>> ELSE <<>>) \o RaidInfo(Tail(lines))

\* get_raid_status returning the list it built from the listing.
get_raid_status_parsed(result) ==
    IF result.rc # "ok" THEN <<>>
    ELSE RaidInfo(SplitLines(result.stdout))

\* get_raid_status(): [] when the listing tool cannot be run or exits
\* non-zero, the one record written in the return statement otherwise.
get_raid_status(result) ==
    IF result.rc # "ok" THEN <<>>
    ELSE <<RaidEntry(<<"main-filesystem">>)>>

InitRaid ==
    /\ OrchestratorIdle
    /\ SizeIdle
    /\ BlkIdle /\ FsIdle /\ SnapIdle
    /\ raid_pc = "call"
    /\ raid_result \in ShowResults
    /\ raid_info = <<>>
    /\ raid_ret = <<>>

\* A caller runs get_raid_status.
GetRaidStatus ==
    /\ raid_pc = "call"
    /\ raid_info' = IF raid_result.rc = "ok" THEN RaidInfo(SplitLines(raid_result.stdout))
                    ELSE <<>>
    /\ raid_ret' = get_raid_status(raid_result)
    /\ raid_pc' = "ret"
    /\ UNCHANGED <<osVars, reqVars, sizeVars, blkVars, fsVars, raid_result, snapVars>>

NextRaid == GetRaidStatus

SpecRaid == InitRaid /\ [][NextRaid]_vars

\* The placeholder record of the interface.
Placeholder ==
    [fs |-> <<"main-filesystem">>, data_profile |-> <<"single">>,
     metadata_profile |-> <<"single">>, global_reserve |-> 0]

\* C15 as stated: every call of the RAID profile collector returns exactly
\* the one placeholder record (data profile single, metadata profile single,
\* reserve 0), whatever the listing tool reports and whatever its result.
C15_AlwaysPlaceholder ==
    raid_pc = "ret" => raid_ret = <<Placeholder>>

\* C15 amended: when the listing tool exits zero the RAID profile collector
\* returns exactly the one placeholder record, however many filesystems and
\* whichever UUIDs the listing has; when the tool exits non-zero or cannot be
\* run it returns the empty list.
C15_PlaceholderWhenListed ==
    raid_pc = "ret" =>
        raid_ret = IF raid_result.rc = "ok" THEN <<Placeholder>> ELSE <<>>

C15_Witness ==
    /\ raid_pc = "ret"
    /\ raid_result.rc = "ok"
    /\ Len(raid_info) = 2
    /\ raid_info[1].fs = UuidA1
    /\ raid_info[2].fs = UuidB1
    /\ raid_ret = <<Placeholder>>

-----------------------------------------------------------------------------
(* Snapshot collector *)

\* Most configurations snapper lists and most rows of a snapshot listing.
MaxConfigs == 2
MaxRows == 2

\* s.split('|'): always at least one piece.
RECURSIVE FirstBar(_, _)
FirstBar(s, i) ==
    IF i > Len(s) THEN i
    ELSE IF s[i] = "|" THEN i
    ELSE FirstBar(s, i + 1)

RECURSIVE SplitBars(_)
SplitBars(s) ==
    LET i == FirstBar(s, 1) IN
    IF i > Len(s) THEN <<s>>
    ELSE <<SubSeq(s, 1, i - 1)>> \o SplitBars(Drop(s, i))

\* Names of snapper configurations.
ConfigNames == << <<"root">>, <<"home">>, <<"var">>, <<"srv">> >>

\* stdout of `snapper list-configs` with the first n configurations: a
\* header, then one "name | subvolume" line each.
RECURSIVE ConfigRows(_, _)
ConfigRows(i, n) ==
    IF i > n THEN Empty
    ELSE ConfigNames[i] \o <<" ", "|", " ", "/", "\n">> \o ConfigRows(i + 1, n)

ConfigListing(n) == <<"Config", " ", "|", " ", "Subvolume", "\n">> \o ConfigRows(1, n)

\* Rows of a snapshot listing: six padded fields with "-" as the pre-number,
\* seven fields with a pre-number, and five fields.
RowDash ==
    <<"1", " ", "|", " ", "single", " ", "|", " ", "-", " ", "|", " ", "d1", " ", "|", " ",
      "root", " ", "|", " ", "first">>
RowPre == <<"2", "|", "post", "|", "1", "|", "d2", "|", "u2", "|", "second", "|", "more">>
RowShort == <<"3", "|", "single", "|", "-", "|", "d3", "|", "u3">>

RowPool == {RowDash, RowPre, RowShort}

RECURSIVE RowSeqs(_)
RowSeqs(n) ==
    IF n = 0 THEN {<<>>}
    ELSE LET shorter == RowSeqs(n - 1) IN
         shorter \cup {Append(q, r) : q \in {x \in shorter : Len(x) = n - 1}, r \in RowPool}

RECURSIVE RowText(_)
RowText(rows) == IF rows = <<>> THEN Empty ELSE Head(rows) \o <<"\n">> \o RowText(Tail(rows))

\* stdout of `snapper -c <config> list`: a header, then the rows.
SnapshotListings ==
    {<<"#", "|", "Type", "|", "Pre", "\n">> \o RowText(rows) : rows \in RowSeqs(MaxRows)}

\* Text snapper may leave on stderr when it fails: one line, or two lines
\* the second of which reads like a row.
SnapperStderrs == { <<"E1", "\n">>, <<"E1", "\n">> \o RowDash \o <<"\n">> }

\* What run_command's subprocess.run(cmd, shell=True, check=True) can end in:
\* an exception other than CalledProcessError, a non-zero exit status
\* (CalledProcessError) with text on stderr, or exit status zero with stdout.
CommandResults(stdouts) ==
    {[rc |-> "raise", stdout |-> Empty, stderr |-> Empty]}
    \cup {[rc |-> "fail", stdout |-> Empty, stderr |-> e] : e \in SnapperStderrs}
    \cup {[rc |-> "ok", stdout |-> o, stderr |-> Empty] : o \in stdouts}

\* What run_command returns for a result that did not raise: the stripped
\* stdout, or f"Error: {e.stderr}".
run_command(res) ==
    IF res.rc = "ok" THEN Strip(res.stdout) ELSE <<"Error:", " ">> \o res.stderr

\* configs: the first token of every line but the first that has a token.
RECURSIVE FirstTokens(_)
FirstTokens(lines) ==
    IF lines = <<>> THEN <<>>
    ELSE LET parts == SplitWs(Strip(Head(lines))) IN
         (IF parts # <<>> THEN <<parts[1]>> ELSE <<>>) \o FirstTokens(Tail(lines))

\* pre_num with the "-" test made on the field as it stands.
PreNumUnstripped(field) == IF field = <<"-">> THEN None ELSE Strip(field)

\* parts[2].strip() if parts[2].strip() != '-' else None
PreNum(field) == IF Strip(field) = <<"-">> THEN None ELSE Strip(field)

\* The dict appended to snapshots for a line with six fields or more.
Snapshot(parts, config) ==
    [id |-> Strip(parts[1]), type |-> Strip(parts[2]), pre_num |-> PreNum(parts[3]),
     description |-> Strip(parts[6]), date |-> Strip(parts[4]), user_name |-> Strip(parts[5]),
     used_space |-> 0, config |-> config]

\* The snapshots the loop over snap_lines appends.
RECURSIVE ParseSnapLines(_, _)
ParseSnapLines(snap_lines, config) ==
    IF snap_lines = <<>> THEN <<>>
    ELSE LET parts == SplitBars(Strip(Head(snap_lines))) IN
         (IF Len(parts) >= 6 THEN <<Snapshot(parts, config)>> ELSE <<>>)
         \o ParseSnapLines(Tail(snap_lines), config)

\* One run_command call, as the collector's trace records it.
SnapCall(tool, config, res) ==
    [tool |-> tool, config |-> config, rc |-> res.rc, stdout |-> res.stdout,
     stderr |-> res.stderr]

OthersUnchanged == UNCHANGED <<osVars, reqVars, sizeVars, blkVars, fsVars, raidVars>>

InitSnapshots ==
    /\ OrchestratorIdle
    /\ SizeIdle
    /\ BlkIdle /\ FsIdle /\ RaidIdle
    /\ snap_pc = "call"
    /\ configs = <<>>
    /\ snap_i = 0
    /\ snapshots = <<>>
    /\ snap_log = <<>>
    /\ snap_ret = <<>>

\* get_snapshots: run_command("snapper list-configs") and the loop that
\* fills configs; an exception ends in the outer except, which returns [].
SnapListConfigs ==
    /\ snap_pc = "call"
    /\ \E res \in CommandResults({Empty} \cup {ConfigListing(n) : n \in 0..MaxConfigs}) :
        /\ snap_log' = Append(snap_log, SnapCall("snapper list-configs", Empty, res))
        /\ IF res.rc = "raise"
           THEN /\ snap_ret' = <<>>
                /\ snap_pc' = "ret"
                /\ UNCHANGED <<configs, snap_i>>
           ELSE /\ configs' = FirstTokens(Tail(SplitLines(run_command(res))))
                /\ snap_i' = 1
                /\ snap_pc' = "loop"
                /\ UNCHANGED snap_ret
    /\ UNCHANGED snapshots
    /\ OthersUnchanged

\* One turn of the loop over configs: run_command(f"snapper -c {config} list")
\* and the loop over its lines but the first; an exception is swallowed by
\* the bare except and the loop goes on.
SnapList ==
    /\ snap_pc = "loop"
    /\ snap_i <= Len(configs)
    /\ LET config == configs[snap_i] IN
       \E res \in CommandResults(SnapshotListings) :
        /\ snap_log' = Append(snap_log, SnapCall("snapper list", config, res))
        /\ snapshots' =
              IF res.rc = "raise" THEN snapshots
              ELSE snapshots \o ParseSnapLines(Tail(SplitLines(run_command(res))), config)
    /\ snap_i' = snap_i + 1
    /\ UNCHANGED <<snap_pc, configs, snap_ret>>
    /\ OthersUnchanged

\* return snapshots
SnapReturn ==
    /\ snap_pc = "loop"
    /\ snap_i > Len(configs)
    /\ snap_ret' = snapshots
    /\ snap_pc' = "ret"
    /\ UNCHANGED <<configs, snap_i, snapshots, snap_log>>
    /\ OthersUnchanged

NextSnapshots ==
    \/ SnapListConfigs
    \/ SnapList
    \/ SnapReturn

SpecSnapshots == InitSnapshots /\ [][NextSnapshots]_vars

\* The Snapshot the interface describes for a row of six fields or more.
SnapshotOfRow(row, config) ==
    LET field == SplitBars(row) IN
    [id |-> Strip(field[1]), type |-> Strip(field[2]),
     pre_num |-> IF Strip(field[3]) = <<"-">> THEN None ELSE Strip(field[3]),
     description |-> Strip(field[6]), date |-> Strip(field[4]), user_name |-> Strip(field[5]),
     used_space |-> 0, config |-> config]

\* The Snapshots of the lines from position i on.
RECURSIVE SnapshotsOfRows(_, _, _)
SnapshotsOfRows(lines, i, config) ==
    IF i > Len(lines) THEN <<>>
    ELSE (IF Len(SplitBars(lines[i])) >= 6 THEN <<SnapshotOfRow(lines[i], config)>> ELSE <<>>)
         \o SnapshotsOfRows(lines, i + 1, config)

\* The Snapshots of a listing: every line but the first.
SnapshotsOfListing(listing, config) == SnapshotsOfRows(SplitLines(listing), 2, config)

\* The Snapshots of the listings, from call i of the trace on, of the
\* per-configuration calls that exited zero.
RECURSIVE SnapshotsOfCalls(_, _)
SnapshotsOfCalls(calls, i) ==
    IF i > Len(calls) THEN <<>>
    ELSE (IF calls[i].tool = "snapper list" /\ calls[i].rc = "ok"
          THEN SnapshotsOfListing(Strip(calls[i].stdout), calls[i].config) ELSE <<>>)
         \o SnapshotsOfCalls(calls, i + 1)

ListCalls == {i \in 1..Len(snap_log) : snap_log[i].tool = "snapper list"}

\* C16 as stated: a failing snapper invocation contributes nothing: when the
\* configuration listing fails there is no per-configuration listing and the
\* result is empty; a configuration whose listing fails contributes no
\* snapshot while the snapshots of every other configuration are returned;
\* the collector ends by returning a list.
C16_FailuresContributeNothing ==
    /\ (snap_log # <<>> /\ snap_log[1].rc # "ok") =>
          /\ ListCalls = {}
          /\ snap_pc = "ret" => snap_ret = <<>>
    /\ snapshots = SnapshotsOfCalls(snap_log, 1)
    /\ snap_pc = "ret" => snap_ret = snapshots

\* C17: when every per-configuration listing exited zero, the snapshots are,
\* configuration by configuration, one Snapshot for every line but the first
\* of the listing that has at least six |-separated fields, with id = field
\* 1, type = field 2, date = field 4, user = field 5, description = field 6
\* (each without surrounding blanks), tagged with the configuration, and
\* preNumber null exactly when field 3 is "-"; lines with fewer fields yield
\* nothing.
C17_RowsBecomeSnapshots ==
    (\A i \in ListCalls : snap_log[i].rc = "ok") =>
        snapshots = SnapshotsOfCalls(snap_log, 1)

C17_Witness ==
    /\ snap_pc = "ret"
    /\ Len(snap_log) = 2
    /\ snap_log[2].rc = "ok"
    /\ snap_log[2].stdout = <<"#", "|", "Type", "|", "Pre", "\n">> \o RowDash \o <<"\n">>
                            \o RowShort \o <<"\n">>
    /\ snap_ret = << [id |-> <<"1">>, type |-> <<"single">>, pre_num |-> None,
                      description |-> <<"first">>, date |-> <<"d1">>,
                      user_name |-> <<"root">>, used_space |-> 0, config |-> <<"root">>] >>

-----------------------------------------------------------------------------
(* Specifications of the orchestrator *)

Init ==
    /\ known \in SUBSET Uuids
    /\ mtab \in InitialTables
    /\ dirs = {}
    /\ pc = [s \in Slots |-> "idle"]
    /\ req = [s \in Slots |-> Blank]
    /\ loc = [s \in Slots |-> NoLoc]
    /\ resp = [s \in Slots |-> NoResp]
    /\ log = [s \in Slots |-> <<>>]
    /\ SizeIdle
    /\ BlkIdle /\ FsIdle /\ RaidIdle /\ SnapIdle

\* One request at a time.
Next ==
    \/ Receive("r1")
    \/ MountBlkid("r1")
    \/ MountMkdir("r1")
    \/ MountRun("r1")
    \/ UmountFindmnt("r1")
    \/ UmountRun("r1")
    \/ AddBlkid("r1")
    \/ AddFindmnt("r1")
    \/ AddRun("r1")
    \/ RaidValidate("r1")
    \/ RaidResize("r1")
    \/ RaidBalance("r1")
    \/ DeleteSnapshot("r1")
    \/ CreateBtrfs("r1")
    \/ CreateSnapshot("r1")

Spec == Init /\ [][Next]_vars

\* Two mount requests arrive together and their steps interleave.
ReceiveMount(s) ==
    /\ pc[s] = "idle"
    /\ \E r \in MountRequests :
        /\ req' = [req EXCEPT ![s] = r]
        /\ pc' = [pc EXCEPT ![s] = EntryPc(r.kind)]
    /\ UNCHANGED <<osVars, loc, resp, log, sizeVars, collectorVars>>

NextMounts ==
    \E s \in Slots :
        \/ ReceiveMount(s)
        \/ MountBlkid(s)
        \/ MountMkdir(s)
        \/ MountRun(s)

SpecMounts == Init /\ [][NextMounts]_vars

-----------------------------------------------------------------------------
(* Properties of the orchestrator *)

\* Positions in request s's trace of the invocations of a tool.
ToolCalls(s, tool) == {i \in 1..Len(log[s]) : log[s][i].tool = tool}

Count(s, tool) == Cardinality(ToolCalls(s, tool))

\* The profiles the interface names.
NamedProfiles ==
    {<<"single">>, <<"raid0">>, <<"raid1">>, <<"raid5">>, <<"raid6">>, <<"raid10">>}

\* A mount-table entry as findmnt prints it.
LineOf(e) == e.target \o <<" ">> \o e.source

\* Index of the first entry of a mount table whose line has the UUID in it,
\* 0 if no line has (None is in no line).
FirstEntryWith(table, uuid) ==
    LET hits == {i \in 1..Len(table) : Contains(LineOf(table[i]), uuid)} IN
    IF hits = {} THEN 0 ELSE CHOOSE i \in hits : \A j \in hits : i <= j

Returned(s, tool) == \E i \in ToolCalls(s, tool) : log[s][i].rc = "returned"

\* C1: a change-RAID request whose profile is none of single, raid0, raid1,
\* raid5, raid6, raid10 (a missing profile included) invokes no external
\* command at any point, and its response is a 400 error.
C1_InvalidProfileRejected ==
    \A s \in Slots :
        (req[s].kind = "change-raid" /\ req[s].profile \notin NamedProfiles) =>
            /\ log[s] = <<>>
            /\ pc[s] = "done" => (resp[s].status = 400 /\ resp[s].key = "error")

C1_Witness ==
    \E s \in Slots :
        /\ req[s].kind = "change-raid"
        /\ req[s].profile = <<"raid9">>
        /\ pc[s] = "done"
        /\ resp[s].status = 400
        /\ log[s] = <<>>

ResizeFailed(s) ==
    \E i \in ToolCalls(s, "btrfs filesystem resize") : log[s][i].rc = "fail"

BalanceFailed(s) ==
    \E i \in ToolCalls(s, "btrfs balance start") : log[s][i].rc = "fail"

BalanceSucceeded(s) ==
    \E i \in ToolCalls(s, "btrfs balance start") : log[s][i].rc = "ok"

Raised(s) == \E i \in 1..Len(log[s]) : log[s][i].rc = "raise"

ValidRaidDone(s) ==
    /\ req[s].kind = "change-raid"
    /\ req[s].profile \in NamedProfiles
    /\ pc[s] = "done"

\* When the resize form failed and the balance form succeeded the response is
\* a success whose message is not the one of a successful resize.
FallbackReported(s) ==
    (ResizeFailed(s) /\ BalanceSucceeded(s)) =>
        /\ resp[s].status = 200
        /\ resp[s].key = "message"
        /\ \A p \in NamedProfiles : resp[s].fmt # RaidResizeReply(p).fmt

\* C2 as stated: a change-RAID request with a valid profile returns an error
\* if and only if both the resize form and the balance form exited non-zero;
\* when the resize form fails and the balance form succeeds the response is a
\* success with a message of its own.
C2_ErrorIffBothExitNonZero ==
    \A s \in Slots :
        ValidRaidDone(s) =>
            /\ (resp[s].key = "error") <=> (ResizeFailed(s) /\ BalanceFailed(s))
            /\ FallbackReported(s)

\* C2 amended: a change-RAID request with a valid profile returns an error if
\* and only if both the resize form and the balance form exited non-zero or
\* running one of them raised (it could not be started, a missing filesystem
\* argument); when the resize form fails and the balance form succeeds the
\* response is a success with a message of its own.
C2_ErrorIffBothFailOrRaise ==
    \A s \in Slots :
        ValidRaidDone(s) =>
            /\ (resp[s].key = "error") <=> ((ResizeFailed(s) /\ BalanceFailed(s)) \/ Raised(s))
            /\ FallbackReported(s)

C2_Witness ==
    \E s \in Slots :
        /\ ValidRaidDone(s)
        /\ ResizeFailed(s)
        /\ BalanceSucceeded(s)
        /\ resp[s].key = "message"

\* The command of each mutating action other than change-RAID.
OpTool(kind) ==
    CASE kind = "mount" -> "mount"
      [] kind = "umount" -> "umount"
      [] kind = "add-device" -> "btrfs device add"
      [] kind = "create-btrfs" -> "mkfs.btrfs"
      [] kind = "create-snapshot" -> "snapper create"
      [] kind = "delete-snapshot" -> "snapper delete"

OtherMutating ==
    {"mount", "umount", "add-device", "create-btrfs", "create-snapshot", "delete-snapshot"}

\* In a change-RAID request the balance form runs at most once and only after
\* the resize form exited non-zero, nothing runs after a success, and the
\* resize form never runs twice; every other mutating action runs its command
\* at most once.
NoRetries(s) ==
    /\ req[s].kind = "change-raid" =>
        /\ Count(s, "btrfs filesystem resize") <= 1
        /\ Count(s, "btrfs balance start") <= 1
        /\ \A j \in ToolCalls(s, "btrfs balance start") :
              \E i \in ToolCalls(s, "btrfs filesystem resize") :
                  i < j /\ log[s][i].rc = "fail"
        /\ \A i \in 1..Len(log[s]) : log[s][i].rc = "ok" => i = Len(log[s])
    /\ req[s].kind \in OtherMutating => Count(s, OpTool(req[s].kind)) <= 1

\* C3 as stated: every change-RAID request invokes the resize form exactly
\* once, the balance form at most once and only after the resize form exited
\* non-zero, and nothing after a success; every other mutating action invokes
\* its command at most once per request.
C3_PrimaryExactlyOnce ==
    \A s \in Slots :
        /\ NoRetries(s)
        /\ (req[s].kind = "change-raid" /\ pc[s] = "done") =>
              Count(s, "btrfs filesystem resize") = 1

\* C3 amended: a change-RAID request invokes the resize form exactly once when
\* its profile is valid and not at all when it is not; the balance form at
\* most once and only after the resize form exited non-zero, and nothing after
\* a success; every other mutating action invokes its command at most once
\* per request.
C3_NoRetries ==
    \A s \in Slots :
        /\ NoRetries(s)
        /\ (req[s].kind = "change-raid" /\ pc[s] = "done") =>
              Count(s, "btrfs filesystem resize") =
                  (IF req[s].profile \in NamedProfiles THEN 1 ELSE 0)

C3_Witness ==
    \E s \in Slots :
        /\ req[s].kind = "change-raid"
        /\ pc[s] = "done"
        /\ Len(log[s]) = 2
        /\ log[s][1].tool = "btrfs filesystem resize"
        /\ log[s][1].rc = "fail"
        /\ log[s][2].tool = "btrfs balance start"

\* C4: a mount request whose UUID lookup returned no device path never
\* invokes the mount command, and its response is a 404 error.
C4_MountUnknownUuid ==
    \A s \in Slots :
        (req[s].kind = "mount" /\ Returned(s, "blkid") /\ req[s].uuid \notin known) =>
            /\ Count(s, "mount") = 0
            /\ pc[s] = "done" => (resp[s].status = 404 /\ resp[s].key = "error")

C4_Witness ==
    \E s \in Slots :
        /\ req[s].kind = "mount"
        /\ req[s].uuid \in Uuids \ known
        /\ pc[s] = "done"
        /\ resp[s].status = 404

\* C5 as stated: once findmnt returned, an unmount request whose UUID is in no
\* line of the mount table is answered 404 and never invokes umount; any
\* other invokes umount exactly once, on the mount point of the first line
\* that has the UUID in it.
C5_UmountResolution ==
    \A s \in Slots :
        (req[s].kind = "umount" /\ pc[s] = "done" /\ Returned(s, "findmnt")) =>
            LET k == FirstEntryWith(loc[s].table, req[s].uuid) IN
            IF k = 0
            THEN resp[s].status = 404 /\ Count(s, "umount") = 0
            ELSE /\ Count(s, "umount") = 1
                 /\ \A i \in ToolCalls(s, "umount") :
                       log[s][i].argv = <<loc[s].table[k].target>>

\* C6: add-device invokes `btrfs device add` only after the filesystem UUID
\* resolved to a device path and was found in the mount table, and passes the
\* device of the request and the mount point of the first line that has the
\* UUID; when the UUID is unknown or in no line of the mount table the
\* response is an error and the add command is never invoked.
C6_AddDeviceResolved ==
    \A s \in Slots :
        req[s].kind = "add-device" =>
            LET k == FirstEntryWith(loc[s].table, req[s].fs_uuid) IN
            /\ \A i \in ToolCalls(s, "btrfs device add") :
                  /\ req[s].fs_uuid \in known
                  /\ loc[s].device_path = DevOf(req[s].fs_uuid)
                  /\ k # 0
                  /\ log[s][i].argv = <<req[s].device, loc[s].table[k].target>>
            /\ (pc[s] = "done" /\ (req[s].fs_uuid \notin known
                                   \/ (Returned(s, "findmnt") /\ k = 0))) =>
                  /\ resp[s].key = "error"
                  /\ Count(s, "btrfs device add") = 0

C6_Witness ==
    \E s \in Slots :
        /\ req[s].kind = "add-device"
        /\ pc[s] = "done"
        /\ Len(loc[s].table) = 2
        /\ \E i \in ToolCalls(s, "btrfs device add") : log[s][i].rc = "ok"

\* C7: in mount, unmount, add-device, create-filesystem, create-snapshot and
\* delete-snapshot, when the action's command exits non-zero the response is a
\* 500 error that carries the command's stderr, and a success message is
\* returned only when the command exited zero.
C7_WriteFailuresSurfaced ==
    \A s \in Slots :
        (pc[s] = "done" /\ req[s].kind \in OtherMutating) =>
            /\ \A i \in ToolCalls(s, OpTool(req[s].kind)) :
                  log[s][i].rc = "fail" =>
                      /\ resp[s].status = 500
                      /\ resp[s].key = "error"
                      /\ \E j \in 1..Len(resp[s].args) : resp[s].args[j] = log[s][i].stderr
            /\ resp[s].key = "message" =>
                  \E i \in ToolCalls(s, OpTool(req[s].kind)) : log[s][i].rc = "ok"

C7_Witness ==
    \E s \in Slots :
        /\ pc[s] = "done"
        /\ req[s].kind = "create-snapshot"
        /\ \E i \in ToolCalls(s, "snapper create") : log[s][i].rc = "fail"
        /\ resp[s].status = 500

\* C8 as stated: of two simultaneous mount requests for different UUIDs, each
\* mounts its own device at its own mount directory, no mount directory is the
\* target of both, and each gets the response it would get alone (404 exactly
\* when its UUID is unknown, success exactly when its mount exited zero).
C8_ConcurrentMountsApart ==
    \A s, t \in Slots :
        (/\ s # t
         /\ req[s].kind = "mount" /\ req[t].kind = "mount"
         /\ req[s].uuid \in Uuids /\ req[t].uuid \in Uuids
         /\ req[s].uuid # req[t].uuid) =>
            /\ \A i \in ToolCalls(s, "mount") :
                  log[s][i].argv = <<DevOf(req[s].uuid), loc[s].mount_point>>
            /\ (loc[s].mount_point # None /\ loc[t].mount_point # None) =>
                  loc[s].mount_point # loc[t].mount_point
            /\ pc[s] = "done" =>
                  /\ (Returned(s, "blkid") /\ req[s].uuid \notin known) <=> resp[s].status = 404
                  /\ (\E i \in ToolCalls(s, "mount") : log[s][i].rc = "ok")
                        <=> resp[s].key = "message"

\* C18: in a mount request the mount directory /mnt/btrfs_<first 8 characters
\* of the UUID> is created only after blkid resolved the UUID to a device, the
\* mount command runs only after the lookup and once the directory exists,
\* on that device and that directory; when mount exits non-zero the response
\* is a 500 error carrying mount's stderr, mount was the request's last step
\* and the directory is still there.
C18_MountStepOrder ==
    /\ dirs # {} =>
          \E s \in Slots : req[s].kind = "mount" /\ loc[s].mount_point # None
    /\ \A s \in Slots :
          req[s].kind = "mount" =>
              /\ loc[s].mount_point # None =>
                    /\ Returned(s, "blkid")
                    /\ req[s].uuid \in known
                    /\ loc[s].device_path = DevOf(req[s].uuid)
                    /\ loc[s].mount_point = <<"/mnt/btrfs_">> \o SubSeq(req[s].uuid, 1, 8)
                    /\ loc[s].mount_point \in dirs
              /\ \A i \in ToolCalls(s, "mount") :
                    /\ \E j \in ToolCalls(s, "blkid") : j < i
                    /\ loc[s].mount_point \in dirs
                    /\ log[s][i].argv = <<loc[s].device_path, loc[s].mount_point>>
                    /\ log[s][i].rc = "fail" =>
                          /\ i = Len(log[s])
                          /\ pc[s] = "done"
                          /\ resp[s].status = 500
                          /\ resp[s].key = "error"
                          /\ resp[s].args = <<log[s][i].stderr>>

C18_Witness ==
    \E s \in Slots :
        /\ req[s].kind = "mount"
        /\ pc[s] = "done"
        /\ \E i \in ToolCalls(s, "mount") : log[s][i].rc = "fail"
        /\ resp[s].status = 500
        /\ dirs = {<<"/mnt/btrfs_">> \o SubSeq(req[s].uuid, 1, 8)}

\* C20 as stated: an unmount request whose uuid is the empty string or is
\* missing never invokes umount; umount runs only for a request with a
\* non-empty UUID, on the mount point of a mount-table entry that has that
\* UUID in it.
C20_EmptyUuidNeverUnmounts ==
    \A s \in Slots :
        req[s].kind = "umount" =>
            \A i \in ToolCalls(s, "umount") :
                /\ req[s].uuid \notin {None, Empty}
                /\ \E k \in 1..Len(loc[s].table) :
                      /\ Contains(LineOf(loc[s].table[k]), req[s].uuid)
                      /\ log[s][i].argv = <<loc[s].table[k].target>>

-----------------------------------------------------------------------------
(* Properties of the size parser *)

UnitLetters == {"B", "K", "M", "G", "T", "b", "k", "m", "g", "t"}

\* The power of 1024 the interface gives each unit.
PowerOfUnit(c) ==
    CASE c \in {"B", "b"} -> 0
      [] c \in {"K", "k"} -> 1
      [] c \in {"M", "m"} -> 2
      [] c \in {"G", "g"} -> 3
      [] c \in {"T", "t"} -> 4

HasUnit(f) == Len(f.unit) = 1 /\ f.unit[1] \in UnitLetters

\* <number><unit>: a number with at least one digit, then one unit letter.
ValidForm(f) ==
    /\ f.num.cls = "number"
    /\ Len(f.num.ip) + Len(f.num.fp) >= 1
    /\ HasUnit(f)

LowLimb(mag) == IF mag = <<>> THEN 0 ELSE mag[Len(mag)]

\* mag * m + a for small m and a, limb by limb from the low end.
RECURSIVE MulAdd(_, _, _)
MulAdd(mag, m, a) ==
    IF mag = <<>> THEN NatLimbs(a)
    ELSE LET x == mag[Len(mag)] * m + a IN
         MulAdd(SubSeq(mag, 1, Len(mag) - 1), m, x \div Limb) \o <<x % Limb>>

\* v is number * 1024^power with the fraction dropped: with the number
\* written digits / 10^scale, |v| * 10^scale + r = digits * 1024^power for
\* some 0 <= r < 10^scale, and v is negative only with the number.
IsIntegerPartOf(v, num, power) ==
    LET scale == Len(num.fp)
        target == ShiftLimbs(NatLimbs(DigitsToNat(num.ip \o num.fp)), power)
        r == (LowLimb(target) + Limb - LowLimb(MulAdd(v.mag, Pow10(scale), 0))) % Limb
    IN
    /\ r < Pow10(scale)
    /\ Normal(MulAdd(v.mag, Pow10(scale), r)) = target
    /\ v.neg = (num.sign = <<"-">> /\ v.mag # <<>>)

\* The value of a Python integer small enough for a machine word.
RECURSIVE NatOfLimbs(_)
NatOfLimbs(mag) ==
    IF mag = <<>> THEN 0
    ELSE NatOfLimbs(SubSeq(mag, 1, Len(mag) - 1)) * Limb + mag[Len(mag)]

\* C9: for a size string <number><unit> with the unit one of B, K, M, G, T in
\* either case, parse_size returns number * 1024^k as an integer (k = 0..4
\* for B..T, the fraction of a byte dropped), without raising; for the empty
\* string and for "0" it returns 0.
C9_ParseSizeValue ==
    size_pc = "ret" =>
        /\ size_str \in {Empty, <<"0">>} => size_ret = Return(Zero)
        /\ ValidForm(size_form) =>
              /\ size_ret.exc = ""
              /\ IsIntegerPartOf(size_ret.value, size_form.num,
                                 PowerOfUnit(size_form.unit[1]))

C9_Witness ==
    /\ size_pc = "ret"
    /\ size_str = <<"1", ".", "5", "g">>
    /\ size_ret.exc = ""
    /\ ~size_ret.value.neg
    /\ NatOfLimbs(size_ret.value.mag) = 1610612736

NonFiniteTexts ==
    { <<"i", "n", "f">>, <<"I", "n", "f">>, <<"-", "i", "n", "f">>,
      <<"i", "n", "f", "i", "n", "i", "t", "y">>, <<"n", "a", "n">> }

NonNumericTexts ==
    { <<"a", "b", "c">>, <<"1", ".", "5", ".", "5">>, <<"-", "-", "1">>,
      <<"1", "x">>, <<" ">>, <<"1", "-">> }

\* A size string the interface calls malformed: the unit is missing or
\* unknown, or the text before the unit is no number, or it is a number that
\* is not finite.
Malformed(f) ==
    \/ f.unit \in {<<>>, <<"X">>, <<"P">>} /\ Render(f) # <<>>
    \/ /\ HasUnit(f)
       /\ \/ f.num.cls = "number" /\ Len(f.num.ip) + Len(f.num.fp) = 0
          \/ f.num.cls = "text" /\ f.num.ip \in NonNumericTexts \cup NonFiniteTexts

\* C10 as stated: for every malformed size string parse_size returns 0 and
\* raises nothing.
C10_MalformedYieldsZero ==
    (size_pc = "ret" /\ size_form # NoForm /\ Malformed(size_form)) =>
        size_ret = Return(Zero)

====
